---- MODULE Spec2Model ----
(***************************************************************************)
(* Model of the generic DFA engine (src/fsm/fsm.go) and of the modulo-three *)
(* calculator built on it (src/mod3/modthree.go).                           *)
(*                                                                          *)
(* A Go string is modelled as the sequence of its runes, each rune as the   *)
(* one-character string that `string(char)` produces inside the loops.     *)
(* A Go map is a function whose DOMAIN is the set of keys present.          *)
(* A Go error is a record: `kind` names the fmt.Errorf format that built it *)
(* and the remaining fields are the values formatted into the message.     *)
(***************************************************************************)
EXTENDS Integers, Sequences, FiniteSets, TLC

VARIABLES
    cfg,          \* the caller's lists and initial state handed to NewFiniteAutomaton
    transitions,  \* the caller's transition map object; fa.Transitions aliases it
    fa,           \* the Automaton in use (FiniteAutomaton, mock, or nil)
    err,          \* the error returned by the constructor
    origin,       \* how fa came to be: "none", "new", "literal", "mock"
    calc,         \* the ModThreeCalculator (or nil)
    calls,        \* per-call execution state of Run / Calculate
    mutations,    \* number of changes the caller made to its data after construction
    mapOrder      \* the order in which a range over a map yields its keys in the
                  \* next constructor call; the runtime picks one per call

vars == <<cfg, transitions, fa, err, origin, calc, calls, mutations, mapOrder>>

\* Go leaves the iteration order of a map unspecified and varies it from one
\* range statement to the next: by key order, or against it.
MapOrders == {"ascending", "descending"}

----------------------------------------------------------------------------
(* Bounds *)

MaxList == 2        \* longest state / alphabet / accepting-state list enumerated
MaxLen == 3         \* longest input string enumerated
MaxMutations == 1   \* caller-side changes followed after one construction

NumCalls == 2       \* calls in flight at once on one automaton
SeqCalls == 2       \* Calculate calls made one after the other on one calculator
MaxConcLen == 2     \* longest input of a call that runs next to others

----------------------------------------------------------------------------
(* Program constants *)

StateS0 == "S0"
StateS1 == "S1"
StateS2 == "S2"
Symbol0 == "0"
Symbol1 == "1"

\* The sentinel remainder returned next to every error.
Sentinel == -1

----------------------------------------------------------------------------
(* Values *)

NoError == [kind |-> "nil"]
NilFA == [kind |-> "nil"]
NilCalc == [kind |-> "nil"]
NoCfg == [kind |-> "none"]
EmptyMap == [x \in {} |-> x]
EmptyString == <<>>
\* fa.Transitions holds a reference to the map the caller passed in, not a copy.
CallerMap == "caller's map"

Range(seq) == {seq[i] : i \in 1..Len(seq)}
SeqsUpTo(S, n) == UNION {[1..k -> S] : k \in 0..n}

----------------------------------------------------------------------------
(* NewFiniteAutomaton, src/fsm/fsm.go *)

\* Variant: the inner loop without the closure check on the target.
RECURSIVE CheckSymbolsNoClosure(_, _, _, _, _)
CheckSymbolsNoClosure(transitionsFromCurrent, currentState, alphabet, j, stateSet) ==
    IF j > Len(alphabet) THEN NoError
    ELSE IF alphabet[j] \notin DOMAIN transitionsFromCurrent
         THEN [kind |-> "MissingTransition", state |-> currentState,
               symbol |-> alphabet[j]]
         ELSE CheckSymbolsNoClosure(transitionsFromCurrent, currentState, alphabet,
                                    j + 1, stateSet)

\* Variant: the row is first checked for missing entries on every symbol,
\* and only then for undeclared targets.
CheckSymbolsCompletenessFirst(transitionsFromCurrent, currentState, alphabet, j, stateSet) ==
    LET rest == j..Len(alphabet)
        missing == {k \in rest : alphabet[k] \notin DOMAIN transitionsFromCurrent}
        open == {k \in rest \ missing :
                    transitionsFromCurrent[alphabet[k]] \notin stateSet}
        first(K) == CHOOSE k \in K : \A m \in K : k <= m
    IN  IF missing # {}
        THEN [kind |-> "MissingTransition", state |-> currentState,
              symbol |-> alphabet[first(missing)]]
        ELSE IF open # {}
        THEN [kind |-> "UndefinedTarget", state |-> currentState,
              symbol |-> alphabet[first(open)],
              target |-> transitionsFromCurrent[alphabet[first(open)]]]
        ELSE NoError

\* Variant: a row with an entry for a symbol outside the alphabet list is
\* rejected.
CheckSymbolsAllEntries(transitionsFromCurrent, currentState, alphabet, j, stateSet) ==
    LET extra == DOMAIN transitionsFromCurrent \ Range(alphabet)
        missing == {k \in j..Len(alphabet) :
                       alphabet[k] \notin DOMAIN transitionsFromCurrent}
        open == {k \in j..Len(alphabet) :
                    /\ alphabet[k] \in DOMAIN transitionsFromCurrent
                    /\ transitionsFromCurrent[alphabet[k]] \notin stateSet}
        bad == missing \cup open
        k == CHOOSE n \in bad : \A m \in bad : n <= m
    IN  IF extra # {}
        THEN LET symbol == CHOOSE a \in extra : TRUE IN
             [kind |-> "UndefinedTarget", state |-> currentState,
              symbol |-> symbol, target |-> transitionsFromCurrent[symbol]]
        ELSE IF bad = {} THEN NoError
        ELSE IF k \in missing
        THEN [kind |-> "MissingTransition", state |-> currentState,
              symbol |-> alphabet[k]]
        ELSE [kind |-> "UndefinedTarget", state |-> currentState,
              symbol |-> alphabet[k],
              target |-> transitionsFromCurrent[alphabet[k]]]

\* Inner loop of step 3: the symbols of the alphabet list from index j on.
RECURSIVE CheckSymbols(_, _, _, _, _)
CheckSymbols(transitionsFromCurrent, currentState, alphabet, j, stateSet) ==
    IF j > Len(alphabet) THEN NoError
    ELSE LET symbol == alphabet[j] IN
         IF symbol \notin DOMAIN transitionsFromCurrent
         THEN [kind |-> "MissingTransition", state |-> currentState, symbol |-> symbol]
         ELSE LET nextState == transitionsFromCurrent[symbol] IN
              IF nextState \notin stateSet
              THEN [kind |-> "UndefinedTarget", state |-> currentState,
                    symbol |-> symbol, target |-> nextState]
              ELSE CheckSymbols(transitionsFromCurrent, currentState, alphabet, j + 1, stateSet)

\* Variant: a missing row is reported for the first declared state instead
\* of the state being examined.
RECURSIVE CheckStatesNamesFirst(_, _, _, _, _)
CheckStatesNamesFirst(states, alphabet, trans, i, stateSet) ==
    IF i > Len(states) THEN NoError
    ELSE IF states[i] \notin DOMAIN trans
         THEN [kind |-> "MissingTransitionRules", state |-> states[1]]
         ELSE LET e == CheckSymbols(trans[states[i]], states[i], alphabet, 1, stateSet) IN
              IF e # NoError THEN e
              ELSE CheckStatesNamesFirst(states, alphabet, trans, i + 1, stateSet)

\* Variant: the state list is walked from its last element to its first.
CheckStatesLastFirst(states, alphabet, trans, i, stateSet) ==
    LET rowError(k) ==
            IF states[k] \notin DOMAIN trans
            THEN [kind |-> "MissingTransitionRules", state |-> states[k]]
            ELSE CheckSymbols(trans[states[k]], states[k], alphabet, 1, stateSet)
        bad == {k \in i..Len(states) : rowError(k) # NoError}
    IN  IF bad = {} THEN NoError
        ELSE rowError(CHOOSE k \in bad : \A m \in bad : m <= k)

\* Variant: the states are ranged over through the stateSet map, in the
\* order the runtime picked for this call.
CheckStatesMapOrder(states, alphabet, trans, i, stateSet) ==
    LET rowError(k) ==
            IF states[k] \notin DOMAIN trans
            THEN [kind |-> "MissingTransitionRules", state |-> states[k]]
            ELSE CheckSymbols(trans[states[k]], states[k], alphabet, 1, stateSet)
        bad == {k \in i..Len(states) : rowError(k) # NoError}
    IN  IF bad = {} THEN NoError
        ELSE IF mapOrder = "ascending"
             THEN rowError(CHOOSE k \in bad : \A m \in bad : k <= m)
             ELSE rowError(CHOOSE k \in bad : \A m \in bad : m <= k)

\* Variant: only the row of the first listed state is checked.
CheckStatesFirstOnly(states, alphabet, trans, i, stateSet) ==
    IF i > Len(states) THEN NoError
    ELSE LET currentState == states[i] IN
         IF currentState \notin DOMAIN trans
         THEN [kind |-> "MissingTransitionRules", state |-> currentState]
         ELSE CheckSymbols(trans[currentState], currentState, alphabet, 1, stateSet)

\* Outer loop of step 3: the states of the state list from index i on.
RECURSIVE CheckStates(_, _, _, _, _)
CheckStates(states, alphabet, trans, i, stateSet) ==
    IF i > Len(states) THEN NoError
    ELSE LET currentState == states[i] IN
         IF currentState \notin DOMAIN trans
         THEN [kind |-> "MissingTransitionRules", state |-> currentState]
         ELSE LET e == CheckSymbols(trans[currentState], currentState, alphabet, 1, stateSet) IN
              IF e # NoError THEN e
              ELSE CheckStates(states, alphabet, trans, i + 1, stateSet)

\* Step 2: the accepting-state list from index i on.
RECURSIVE CheckAccepting(_, _, _)
CheckAccepting(acceptingStates, i, stateSet) ==
    IF i > Len(acceptingStates) THEN NoError
    ELSE IF acceptingStates[i] \notin stateSet
         THEN [kind |-> "AcceptingStateNotInQ", state |-> acceptingStates[i]]
         ELSE CheckAccepting(acceptingStates, i + 1, stateSet)

\* The struct built at lines 77-83: three fresh sets and a reference to the
\* caller's map.
MakeFA(states, alphabet, initialState, acceptingStates) ==
    [kind |-> "FiniteAutomaton",
     States |-> Range(states),
     Alphabet |-> Range(alphabet),
     InitialState |-> initialState,
     AcceptingStates |-> Range(acceptingStates),
     Transitions |-> CallerMap]

\* Variant: the constructor hands out the unvalidated struct with the error.
ReturnsCandidate(candidate) == candidate

\* What the constructor returns next to a non-nil error.
FailedFA(candidate) == NilFA

\* Variant: the initial state is not looked up in the state set.
NewFiniteAutomatonNoInitialCheck(states, alphabet, initialState, acceptingStates, trans) ==
    LET stateSet == Range(states)
        candidate == MakeFA(states, alphabet, initialState, acceptingStates)
        e2 == CheckAccepting(acceptingStates, 1, stateSet)
        e3 == CheckStates(states, alphabet, trans, 1, stateSet)
    IN  IF e2 # NoError THEN [fa |-> FailedFA(candidate), err |-> e2]
        ELSE IF e3 # NoError THEN [fa |-> FailedFA(candidate), err |-> e3]
        ELSE [fa |-> candidate, err |-> NoError]

\* Variant: the table is examined first, the initial state last.
NewFiniteAutomatonTableFirst(states, alphabet, initialState, acceptingStates, trans) ==
    LET stateSet == Range(states)
        candidate == MakeFA(states, alphabet, initialState, acceptingStates)
        e2 == CheckAccepting(acceptingStates, 1, stateSet)
        e3 == CheckStates(states, alphabet, trans, 1, stateSet)
    IN  IF e3 # NoError THEN [fa |-> FailedFA(candidate), err |-> e3]
        ELSE IF e2 # NoError THEN [fa |-> FailedFA(candidate), err |-> e2]
        ELSE IF initialState \notin stateSet
        THEN [fa |-> FailedFA(candidate),
              err |-> [kind |-> "InitialStateNotInQ", state |-> initialState]]
        ELSE [fa |-> candidate, err |-> NoError]

NewFiniteAutomaton(states, alphabet, initialState, acceptingStates, trans) ==
    LET stateSet == Range(states)
        candidate == MakeFA(states, alphabet, initialState, acceptingStates)
        e2 == CheckAccepting(acceptingStates, 1, stateSet)
        e3 == CheckStates(states, alphabet, trans, 1, stateSet)
    IN  IF initialState \notin stateSet
        THEN [fa |-> FailedFA(candidate),
              err |-> [kind |-> "InitialStateNotInQ", state |-> initialState]]
        ELSE IF e2 # NoError THEN [fa |-> FailedFA(candidate), err |-> e2]
        ELSE IF e3 # NoError THEN [fa |-> FailedFA(candidate), err |-> e3]
        ELSE [fa |-> candidate, err |-> NoError]

----------------------------------------------------------------------------
(* Construction and the caller's data afterwards                           *)

\* Identifiers the enumerated configurations are written with.
CfgStates == {StateS0, StateS1}
CfgSymbols == {Symbol0, Symbol1}
\* Names the accepting-state lists are written with: one more than can be
\* declared, so that a list can hold two different undeclared states.
CfgAccepting == CfgStates \cup {StateS2}

\* Every row map[symbol]state over the given keys and targets, and every
\* table map[state]row, partial in both levels.
Rows(symbols, targets) == UNION {[A -> targets] : A \in SUBSET symbols}
Tables(sts, symbols, targets) == UNION {[D -> Rows(symbols, targets)] : D \in SUBSET sts}

IdleCalls == [c \in {1} |-> [pc |-> "idle"]]

InitNew ==
    /\ cfg = NoCfg
    /\ transitions = EmptyMap
    /\ fa = NilFA
    /\ err = NoError
    /\ origin = "none"
    /\ calc = NilCalc
    /\ calls = IdleCalls
    /\ mutations = 0
    /\ mapOrder \in MapOrders

\* One call of NewFiniteAutomaton with the caller's five arguments.
Construct ==
    /\ cfg = NoCfg
    /\ \E states \in SeqsUpTo(CfgStates, MaxList),
          alphabet \in SeqsUpTo(CfgSymbols, MaxList),
          initialState \in CfgStates,
          acceptingStates \in SeqsUpTo(CfgAccepting, MaxList),
          trans \in Tables(CfgStates, CfgSymbols, CfgStates) :
          LET r == NewFiniteAutomaton(states, alphabet, initialState, acceptingStates, trans)
          IN  /\ cfg' = [states |-> states, alphabet |-> alphabet,
                         initialState |-> initialState,
                         acceptingStates |-> acceptingStates]
              /\ transitions' = trans
              /\ fa' = r.fa
              /\ err' = r.err
              /\ origin' = IF r.err = NoError THEN "new" ELSE "none"
    /\ mapOrder' \in MapOrders
    /\ UNCHANGED <<calc, calls, mutations>>

\* The caller calls NewFiniteAutomaton once more with the same five
\* arguments and keeps what this second call returned.
ConstructAgain ==
    /\ cfg # NoCfg
    /\ mutations = 0
    /\ \E c \in DOMAIN calls :
          /\ calls[c].pc = "idle"
          /\ LET r == NewFiniteAutomaton(cfg.states, cfg.alphabet, cfg.initialState,
                                         cfg.acceptingStates, transitions)
             IN  calls' = [calls EXCEPT ![c] =
                    [pc |-> "done", op |-> "NewFiniteAutomaton",
                     fa |-> r.fa, err |-> r.err, order |-> mapOrder]]
    /\ mapOrder' \in MapOrders
    /\ UNCHANGED <<cfg, transitions, fa, err, origin, calc, mutations>>

\* After a successful construction the caller still holds the map and the
\* lists it passed in and goes on using them.  The automaton's sets were
\* copied out of the lists; its Transitions field is the caller's map itself.
CallerMay == origin = "new" /\ mutations < MaxMutations

\* delete(transitions, s)
CallerDeletesRow ==
    /\ CallerMay
    /\ \E s \in DOMAIN transitions :
          transitions' = [x \in (DOMAIN transitions) \ {s} |-> transitions[x]]
    /\ mutations' = mutations + 1
    /\ UNCHANGED <<cfg, fa, err, origin, calc, calls, mapOrder>>

\* delete(transitions[s], a)
CallerDeletesEntry ==
    /\ CallerMay
    /\ \E s \in DOMAIN transitions : \E a \in DOMAIN transitions[s] :
          transitions' = [transitions EXCEPT ![s] =
                             [x \in (DOMAIN transitions[s]) \ {a} |-> transitions[s][x]]]
    /\ mutations' = mutations + 1
    /\ UNCHANGED <<cfg, fa, err, origin, calc, calls, mapOrder>>

\* transitions[s][a] = t
CallerSetsEntry ==
    /\ CallerMay
    /\ \E s \in DOMAIN transitions : \E a \in CfgSymbols : \E t \in CfgStates :
          /\ (a \in DOMAIN transitions[s] => transitions[s][a] # t)
          /\ transitions' = [transitions EXCEPT ![s] =
                [x \in (DOMAIN transitions[s]) \cup {a} |->
                    IF x = a THEN t ELSE transitions[s][x]]]
    /\ mutations' = mutations + 1
    /\ UNCHANGED <<cfg, fa, err, origin, calc, calls, mapOrder>>

\* states[i] = s  or  alphabet[i] = a  on the slices passed to the constructor
CallerSetsListElement ==
    /\ CallerMay
    /\ \/ \E i \in 1..Len(cfg.states) : \E s \in CfgStates :
             /\ cfg.states[i] # s
             /\ cfg' = [cfg EXCEPT !.states[i] = s]
       \/ \E i \in 1..Len(cfg.alphabet) : \E a \in CfgSymbols :
             /\ cfg.alphabet[i] # a
             /\ cfg' = [cfg EXCEPT !.alphabet[i] = a]
    /\ mutations' = mutations + 1
    /\ UNCHANGED <<transitions, fa, err, origin, calc, calls, mapOrder>>

NextNew ==
    \/ Construct
    \/ ConstructAgain
    \/ CallerDeletesRow
    \/ CallerDeletesEntry
    \/ CallerSetsEntry
    \/ CallerSetsListElement

SpecNew == InitNew /\ [][NextNew]_vars

----------------------------------------------------------------------------
(* FiniteAutomaton.Run, src/fsm/fsm.go                                      *)

\* The map fa.Transitions refers to.
Deref(ref) == transitions

\* Variant: a symbol without an entry is skipped instead of rejected.
RunIterationSkipsUnknown(trans, currentState, symbol) ==
    IF currentState \notin DOMAIN trans
    THEN [err |-> [kind |-> "TransitionRuleMissing", state |-> currentState],
          nextState |-> ""]
    ELSE IF symbol \notin DOMAIN trans[currentState]
         THEN [err |-> NoError, nextState |-> currentState]
         ELSE [err |-> NoError, nextState |-> trans[currentState][symbol]]

\* Variant: a white-space symbol is passed over without a lookup result.
RunIterationSkipsSpace(trans, currentState, symbol) ==
    IF currentState \notin DOMAIN trans
    THEN [err |-> [kind |-> "TransitionRuleMissing", state |-> currentState],
          nextState |-> ""]
    ELSE IF symbol \in {" ", "\n"}
         THEN [err |-> NoError, nextState |-> currentState]
         ELSE IF symbol \notin DOMAIN trans[currentState]
              THEN [err |-> [kind |-> "InvalidInputSymbol", symbol |-> symbol,
                             state |-> currentState],
                    nextState |-> ""]
              ELSE [err |-> NoError, nextState |-> trans[currentState][symbol]]

\* Variant: the cursor is not moved to the looked-up state.
RunIterationNoAdvance(trans, currentState, symbol) ==
    IF currentState \notin DOMAIN trans
    THEN [err |-> [kind |-> "TransitionRuleMissing", state |-> currentState],
          nextState |-> ""]
    ELSE IF symbol \notin DOMAIN trans[currentState]
         THEN [err |-> [kind |-> "InvalidInputSymbol", symbol |-> symbol,
                        state |-> currentState],
               nextState |-> ""]
         ELSE [err |-> NoError, nextState |-> currentState]

\* Variant: a missing row is reported as an invalid symbol.
RunIterationOneKind(trans, currentState, symbol) ==
    IF currentState \notin DOMAIN trans \/ symbol \notin DOMAIN trans[currentState]
    THEN [err |-> [kind |-> "InvalidInputSymbol", symbol |-> symbol,
                   state |-> currentState],
          nextState |-> ""]
    ELSE [err |-> NoError, nextState |-> trans[currentState][symbol]]

\* One pass through the body of the loop `for _, char := range input`:
\* either the next current state or the error the loop returns with.
RunIteration(trans, currentState, symbol) ==
    IF currentState \notin DOMAIN trans
    THEN [err |-> [kind |-> "TransitionRuleMissing", state |-> currentState],
          nextState |-> ""]
    ELSE LET transitionsFromCurrent == trans[currentState] IN
         IF symbol \notin DOMAIN transitionsFromCurrent
         THEN [err |-> [kind |-> "InvalidInputSymbol", symbol |-> symbol,
                        state |-> currentState],
               nextState |-> ""]
         ELSE [err |-> NoError, nextState |-> transitionsFromCurrent[symbol]]

\* Variant: the cursor starts at the zero value of string.
RunEntryZeroCursor(op, input) ==
    [pc |-> "run", op |-> op, input |-> input, i |-> 1, currentState |-> "",
     lookups |-> 0, trace |-> <<>>]

\* Variant: the cursor is kept between calls and a new call resumes from
\* the state the last successful call ended in.
RunEntryResumes(op, input) ==
    LET ended == {d \in DOMAIN calls :
                     /\ calls[d].pc = "done" /\ calls[d].op = "Run"
                     /\ calls[d].err = NoError}
    IN  [pc |-> "run", op |-> op, input |-> input, i |-> 1,
         currentState |-> IF ended = {} THEN fa.InitialState
                          ELSE calls[CHOOSE d \in ended : TRUE].finalState,
         lookups |-> 0, trace |-> <<>>]

\* Local variables of a Run call on entry: the cursor starts at InitialState.
\* Two observations ride along with the locals: `lookups` counts the turns
\* of the loop entered so far, and `trace` lists, for a Calculate call, the
\* methods it has called and what each returned.
RunEntry(op, input) ==
    [pc |-> "run", op |-> op, input |-> input, i |-> 1,
     currentState |-> fa.InitialState, lookups |-> 0, trace |-> <<>>]

\* Run returns (finalState, e) to whoever called it: to the client, or to
\* Calculate, which goes on at modthree.go:94.
\* Variant: Calculate goes on to the acceptance check whatever Run returned.
RunReturnsSwallows(call, finalState, e) ==
    LET returned == [method |-> "Run", state |-> finalState, err |-> e] IN
    IF call.op = "Run"
    THEN [pc |-> "done", op |-> "Run", input |-> call.input, steps |-> call.i - 1,
          lookups |-> call.lookups, finalState |-> finalState, err |-> e]
    ELSE [pc |-> "accept", op |-> "Calculate", input |-> call.input,
          finalState |-> finalState,
          trace |-> Append(call.trace, returned)]

RunReturns(call, finalState, e) ==
    LET returned == [method |-> "Run", state |-> finalState, err |-> e] IN
    IF call.op = "Run"
    THEN [pc |-> "done", op |-> "Run", input |-> call.input, steps |-> call.i - 1,
          lookups |-> call.lookups, finalState |-> finalState, err |-> e]
    ELSE IF e # NoError
         THEN [pc |-> "done", op |-> "Calculate", input |-> call.input,
               remainder |-> Sentinel, err |-> e,
               trace |-> Append(call.trace, returned)]
         ELSE [pc |-> "accept", op |-> "Calculate", input |-> call.input,
               finalState |-> finalState,
               trace |-> Append(call.trace, returned)]

Callable(c) == calls[c].pc \in {"idle", "done"}

\* A client calls fa.Run(input) on the concrete automaton.
BeginRun(c, input) ==
    /\ Callable(c)
    /\ fa.kind = "FiniteAutomaton"
    /\ calls' = [calls EXCEPT ![c] = RunEntry("Run", input)]
    /\ UNCHANGED <<cfg, transitions, fa, err, origin, calc, mutations, mapOrder>>

\* Variant: on an error the loop returns the state reached so far.
RunStepReturnsPartial(c) ==
    LET call == calls[c] IN
    /\ call.pc = "run"
    /\ IF call.i > Len(call.input)
       THEN calls' = [calls EXCEPT ![c] = RunReturns(call, call.currentState, NoError)]
       ELSE LET it == RunIteration(Deref(fa.Transitions), call.currentState,
                                   call.input[call.i])
                entered == [call EXCEPT !.lookups = call.lookups + 1]
            IN  IF it.err # NoError
                THEN calls' = [calls EXCEPT ![c] =
                                  RunReturns(entered, call.currentState, it.err)]
                ELSE calls' = [calls EXCEPT ![c] =
                                  [entered EXCEPT !.currentState = it.nextState,
                                                  !.i = call.i + 1]]
    /\ UNCHANGED <<cfg, transitions, fa, err, origin, calc, mutations, mapOrder>>

\* Variant: the cursor is one location on the automaton shared by the calls
\* in flight, so a turn of the loop reads what another call wrote last.
RunStepSharedCursor(c) ==
    LET call == calls[c]
        others == {d \in DOMAIN calls \ {c} : calls[d].pc = "run"}
        cursor == IF others = {} THEN call.currentState
                  ELSE calls[CHOOSE d \in others : TRUE].currentState
    IN
    /\ call.pc = "run"
    /\ IF call.i > Len(call.input)
       THEN calls' = [calls EXCEPT ![c] = RunReturns(call, cursor, NoError)]
       ELSE LET it == RunIteration(Deref(fa.Transitions), cursor, call.input[call.i])
                entered == [call EXCEPT !.lookups = call.lookups + 1]
            IN  IF it.err # NoError
                THEN calls' = [calls EXCEPT ![c] = RunReturns(entered, "", it.err)]
                ELSE calls' = [calls EXCEPT ![c] =
                                  [entered EXCEPT !.currentState = it.nextState,
                                                  !.i = call.i + 1]]
    /\ UNCHANGED <<cfg, transitions, fa, err, origin, calc, mutations, mapOrder>>

\* Variant: the cursor is kept in the automaton, in the InitialState field.
RunStepStoresCursor(c) ==
    LET call == calls[c] IN
    /\ call.pc = "run"
    /\ IF call.i > Len(call.input)
       THEN /\ calls' = [calls EXCEPT ![c] = RunReturns(call, call.currentState, NoError)]
            /\ fa' = fa
       ELSE LET it == RunIteration(Deref(fa.Transitions), call.currentState,
                                   call.input[call.i])
                entered == [call EXCEPT !.lookups = call.lookups + 1]
            IN  IF it.err # NoError
                THEN /\ calls' = [calls EXCEPT ![c] = RunReturns(entered, "", it.err)]
                     /\ fa' = fa
                ELSE /\ calls' = [calls EXCEPT ![c] =
                                     [entered EXCEPT !.currentState = it.nextState,
                                                     !.i = call.i + 1]]
                     /\ fa' = [fa EXCEPT !.InitialState = it.nextState]
    /\ UNCHANGED <<cfg, transitions, err, origin, calc, mutations, mapOrder>>

\* Variant: after the last symbol the loop starts over at the first one.
RunStepRewinds(c) ==
    LET call == calls[c] IN
    /\ call.pc = "run"
    /\ IF call.i > Len(call.input)
       THEN calls' = [calls EXCEPT ![c] = RunReturns(call, call.currentState, NoError)]
       ELSE LET it == RunIteration(Deref(fa.Transitions), call.currentState,
                                   call.input[call.i])
                entered == [call EXCEPT !.lookups = call.lookups + 1]
            IN  IF it.err # NoError
                THEN calls' = [calls EXCEPT ![c] = RunReturns(entered, "", it.err)]
                ELSE IF call.i = Len(call.input)
                THEN calls' = [calls EXCEPT ![c] =
                                  [call EXCEPT !.currentState = it.nextState,
                                               !.i = 1, !.lookups = 0]]
                ELSE calls' = [calls EXCEPT ![c] =
                                  [entered EXCEPT !.currentState = it.nextState,
                                                  !.i = call.i + 1]]
    /\ UNCHANGED <<cfg, transitions, fa, err, origin, calc, mutations, mapOrder>>

\* One turn of the loop, or the return after the last symbol.
RunStep(c) ==
    LET call == calls[c] IN
    /\ call.pc = "run"
    /\ IF call.i > Len(call.input)
       THEN calls' = [calls EXCEPT ![c] = RunReturns(call, call.currentState, NoError)]
       ELSE LET it == RunIteration(Deref(fa.Transitions), call.currentState,
                                   call.input[call.i])
                entered == [call EXCEPT !.lookups = call.lookups + 1]
            IN  IF it.err # NoError
                THEN calls' = [calls EXCEPT ![c] = RunReturns(entered, "", it.err)]
                ELSE calls' = [calls EXCEPT ![c] =
                                  [entered EXCEPT !.currentState = it.nextState,
                                                  !.i = call.i + 1]]
    /\ UNCHANGED <<cfg, transitions, fa, err, origin, calc, mutations, mapOrder>>

\* Characters of the enumerated inputs of Run.
RunChars == CfgSymbols
RunInputs == SeqsUpTo(RunChars, MaxLen)

\* A struct literal &FiniteAutomaton{InitialState: q0, Transitions: t}, as
\* setupSimpleFA builds it: the three sets are left nil and nothing is
\* validated.
Literal(q0) ==
    [kind |-> "FiniteAutomaton", States |-> {}, Alphabet |-> {},
     InitialState |-> q0, AcceptingStates |-> {}, Transitions |-> CallerMap]

\* The automaton exists before the first call: returned by the validating
\* constructor for some configuration, or assembled by hand.
Init ==
    /\ cfg = NoCfg
    /\ err = NoError
    /\ calc = NilCalc
    /\ calls = IdleCalls
    /\ mutations = 0
    /\ mapOrder = "ascending"
    /\ \/ \E states \in SeqsUpTo(CfgStates, MaxList),
             alphabet \in SeqsUpTo(CfgSymbols, MaxList),
             initialState \in CfgStates,
             acceptingStates \in SeqsUpTo(CfgStates, MaxList),
             trans \in Tables(CfgStates, CfgSymbols, CfgStates) :
             LET r == NewFiniteAutomaton(states, alphabet, initialState,
                                         acceptingStates, trans)
             IN  /\ r.err = NoError
                 /\ fa = r.fa
                 /\ transitions = trans
                 /\ origin = "new"
       \/ \E q0 \in CfgStates, trans \in Tables(CfgStates, CfgSymbols, CfgStates) :
             /\ fa = Literal(q0)
             /\ transitions = trans
             /\ origin = "literal"

Next ==
    \/ \E c \in DOMAIN calls : \E input \in RunInputs : BeginRun(c, input)
    \/ \E c \in DOMAIN calls : RunStep(c)

Spec == Init /\ [][Next]_vars

\* A call of Run is a goroutine that keeps executing: a turn of the loop
\* that can be taken is taken.
SpecRunFair == Spec /\ \A c \in DOMAIN IdleCalls : WF_vars(RunStep(c))

----------------------------------------------------------------------------
(* The modulo-three calculator, src/mod3/modthree.go                        *)

\* Variant: the row of S0 has a third entry, for the letter 'A'.
GetModThreeConfigExtraEntry ==
    [States |-> <<StateS0, StateS1, StateS2>>,
     Alphabet |-> <<Symbol0, Symbol1>>,
     InitialState |-> StateS0,
     AcceptingStates |-> <<StateS0, StateS1, StateS2>>,
     Transitions |->
        (StateS0 :> (Symbol0 :> StateS0 @@ Symbol1 :> StateS1 @@ "A" :> StateS0)) @@
        (StateS1 :> (Symbol0 :> StateS2 @@ Symbol1 :> StateS0)) @@
        (StateS2 :> (Symbol0 :> StateS1 @@ Symbol1 :> StateS2))]

\* Variant: S0 moves to S1 on '0'.
GetModThreeConfigZeroMoves ==
    [States |-> <<StateS0, StateS1, StateS2>>,
     Alphabet |-> <<Symbol0, Symbol1>>,
     InitialState |-> StateS0,
     AcceptingStates |-> <<StateS0, StateS1, StateS2>>,
     Transitions |->
        (StateS0 :> (Symbol0 :> StateS1 @@ Symbol1 :> StateS1)) @@
        (StateS1 :> (Symbol0 :> StateS2 @@ Symbol1 :> StateS0)) @@
        (StateS2 :> (Symbol0 :> StateS1 @@ Symbol1 :> StateS2))]

\* Variant: the row of S2 with its two targets exchanged.
GetModThreeConfigS2Swapped ==
    [States |-> <<StateS0, StateS1, StateS2>>,
     Alphabet |-> <<Symbol0, Symbol1>>,
     InitialState |-> StateS0,
     AcceptingStates |-> <<StateS0, StateS1, StateS2>>,
     Transitions |->
        (StateS0 :> (Symbol0 :> StateS0 @@ Symbol1 :> StateS1)) @@
        (StateS1 :> (Symbol0 :> StateS2 @@ Symbol1 :> StateS0)) @@
        (StateS2 :> (Symbol0 :> StateS2 @@ Symbol1 :> StateS1))]

\* Variant: S0 is the only accepting state.
GetModThreeConfigAcceptsS0 ==
    [States |-> <<StateS0, StateS1, StateS2>>,
     Alphabet |-> <<Symbol0, Symbol1>>,
     InitialState |-> StateS0,
     AcceptingStates |-> <<StateS0>>,
     Transitions |->
        (StateS0 :> (Symbol0 :> StateS0 @@ Symbol1 :> StateS1)) @@
        (StateS1 :> (Symbol0 :> StateS2 @@ Symbol1 :> StateS0)) @@
        (StateS2 :> (Symbol0 :> StateS1 @@ Symbol1 :> StateS2))]

\* Variant: the row of S1 with its two targets exchanged.
GetModThreeConfigSwapped ==
    [States |-> <<StateS0, StateS1, StateS2>>,
     Alphabet |-> <<Symbol0, Symbol1>>,
     InitialState |-> StateS0,
     AcceptingStates |-> <<StateS0, StateS1, StateS2>>,
     Transitions |->
        (StateS0 :> (Symbol0 :> StateS0 @@ Symbol1 :> StateS1)) @@
        (StateS1 :> (Symbol0 :> StateS0 @@ Symbol1 :> StateS2)) @@
        (StateS2 :> (Symbol0 :> StateS1 @@ Symbol1 :> StateS2))]

GetModThreeConfig ==
    [States |-> <<StateS0, StateS1, StateS2>>,
     Alphabet |-> <<Symbol0, Symbol1>>,
     InitialState |-> StateS0,
     AcceptingStates |-> <<StateS0, StateS1, StateS2>>,
     Transitions |->
        (StateS0 :> (Symbol0 :> StateS0 @@ Symbol1 :> StateS1)) @@
        (StateS1 :> (Symbol0 :> StateS2 @@ Symbol1 :> StateS0)) @@
        (StateS2 :> (Symbol0 :> StateS1 @@ Symbol1 :> StateS2))]

\* A configuration of a caller with a state that has no remainder, the
\* "S99" of the comment at modthree.go:106: one '1' leads to it, a second
\* one back.
UnknownStateConfig ==
    [States |-> <<StateS0, "S99">>,
     Alphabet |-> <<Symbol0, Symbol1>>,
     InitialState |-> StateS0,
     AcceptingStates |-> <<StateS0, "S99">>,
     Transitions |->
        (StateS0 :> (Symbol0 :> StateS0 @@ Symbol1 :> "S99")) @@
        ("S99" :> (Symbol0 :> "S99" @@ Symbol1 :> StateS0))]

\* The restrictive configuration of the calculator tests: input "0" ends in
\* S1, which is not accepting.
GetTestModThreeConfig ==
    [States |-> <<StateS0, StateS1>>,
     Alphabet |-> <<Symbol0>>,
     InitialState |-> StateS0,
     AcceptingStates |-> <<StateS0>>,
     Transitions |->
        (StateS0 :> (Symbol0 :> StateS1)) @@
        (StateS1 :> (Symbol0 :> StateS1))]

\* Variant: the engine's error is replaced by the factory's message.
NewModThreeCalculatorDropsCause(config) ==
    LET r == NewFiniteAutomaton(config.States, config.Alphabet, config.InitialState,
                                config.AcceptingStates, config.Transitions)
    IN  IF r.err # NoError
        THEN [calc |-> NilCalc,
              err |-> [kind |-> "FailedToInitializeFSMEngine", cause |-> NoError]]
        ELSE [calc |-> [kind |-> "ModThreeCalculator", fa |-> r.fa], err |-> NoError]

NewModThreeCalculator(config) ==
    LET r == NewFiniteAutomaton(config.States, config.Alphabet, config.InitialState,
                                config.AcceptingStates, config.Transitions)
    IN  IF r.err # NoError
        THEN [calc |-> NilCalc,
              err |-> [kind |-> "FailedToInitializeFSMEngine", cause |-> r.err]]
        ELSE [calc |-> [kind |-> "ModThreeCalculator", fa |-> r.fa], err |-> NoError]

\* Variant: a state outside the three named ones maps to 0.
stateToRemainderDefaultZero(state) ==
    CASE state = StateS0 -> 0
      [] state = StateS1 -> 1
      [] state = StateS2 -> 2
      [] OTHER -> 0

stateToRemainder(state) ==
    CASE state = StateS0 -> 0
      [] state = StateS1 -> 1
      [] state = StateS2 -> 2
      [] OTHER -> -1

\* Variant: only the first character of the input is looked up.
ValidateInputFirstOnly(automaton, input) ==
    input = <<>> \/ input[1] \in automaton.Alphabet

\* FiniteAutomaton.ValidateInput: every character of the input is a key of
\* the Alphabet set.
ValidateInput(automaton, input) ==
    \A k \in 1..Len(input) : input[k] \in automaton.Alphabet

\* Variant: the lookup is made in the States set.
IsAcceptingAnyDeclared(automaton, state) == state \in automaton.States

\* FiniteAutomaton.IsAccepting
IsAccepting(automaton, state) == state \in automaton.AcceptingStates

\* strings.TrimSpace: the input without its leading and trailing white space,
\* as Unicode defines it (unicode.IsSpace): tab, line feed, vertical tab,
\* form feed, carriage return, space, U+0085, U+00A0 and the space
\* characters above Latin-1.  A character that has no escape in a TLA+
\* string is written as its code point.
WhiteSpace ==
    {"\t", "\n", "U+000B", "\f", "\r", " ", "U+0085", "U+00A0",
     "U+1680", "U+2000", "U+2001", "U+2002", "U+2003", "U+2004", "U+2005",
     "U+2006", "U+2007", "U+2008", "U+2009", "U+200A", "U+2028", "U+2029",
     "U+202F", "U+205F", "U+3000"}

RECURSIVE TrimLeft(_)
TrimLeft(input) ==
    IF input # EmptyString /\ Head(input) \in WhiteSpace
    THEN TrimLeft(Tail(input)) ELSE input

RECURSIVE TrimRight(_)
TrimRight(input) ==
    IF input # EmptyString /\ input[Len(input)] \in WhiteSpace
    THEN TrimRight(SubSeq(input, 1, Len(input) - 1)) ELSE input

\* Variant: nothing is trimmed.
TrimSpaceKeepsAll(input) == input

TrimSpace(input) == TrimRight(TrimLeft(input))

\* A substitute Automaton (the tests' MockAutomaton): its methods are
\* arbitrary functions, so each call may return any value of its result type.
MockFA == [kind |-> "Mock"]
MockError == [kind |-> "mock FSM run error"]
MockStates == {StateS0, StateS1, StateS2, "S99", ""}

CalculateReturns(call, remainder, e) ==
    [pc |-> "done", op |-> "Calculate", input |-> call.input,
     remainder |-> remainder, err |-> e, trace |-> call.trace]

\* The call with one more entry in its trace.
Traced(call, entry) == [call EXCEPT !.trace = Append(call.trace, entry)]

\* Variant: the calculator remembers the error of a call that failed and
\* answers every later call with it.
BeginCalculateStickyError(c, input) ==
    LET failed == {d \in DOMAIN calls :
                      /\ calls[d].pc = "done" /\ calls[d].op = "Calculate"
                      /\ calls[d].err # NoError}
    IN
    /\ Callable(c)
    /\ calc # NilCalc
    /\ calls' = [calls EXCEPT ![c] =
          IF failed # {}
          THEN CalculateReturns([input |-> input, trace |-> <<>>], Sentinel,
                                calls[CHOOSE d \in failed : TRUE].err)
          ELSE IF TrimSpace(input) = EmptyString
          THEN CalculateReturns([input |-> input, trace |-> <<>>], 0, NoError)
          ELSE IF fa.kind = "Mock"
               THEN [pc |-> "mockrun", op |-> "Calculate", input |-> input,
                     trace |-> <<>>]
               ELSE RunEntry("Calculate", input)]
    /\ UNCHANGED <<cfg, transitions, fa, err, origin, calc, mutations, mapOrder>>

\* Entry of Calculate: the blank-input shortcut, else the call of c.fa.Run.
BeginCalculate(c, input) ==
    /\ Callable(c)
    /\ calc # NilCalc
    /\ calls' = [calls EXCEPT ![c] =
          IF TrimSpace(input) = EmptyString
          THEN CalculateReturns([input |-> input, trace |-> <<>>], 0, NoError)
          ELSE IF fa.kind = "Mock"
               THEN [pc |-> "mockrun", op |-> "Calculate", input |-> input,
                     trace |-> <<>>]
               ELSE RunEntry("Calculate", input)]
    /\ UNCHANGED <<cfg, transitions, fa, err, origin, calc, mutations, mapOrder>>

\* MockAutomaton.Run: whatever the test's MockRun function returns.
MockRunStep(c) ==
    /\ calls[c].pc = "mockrun"
    /\ \E finalState \in MockStates, e \in {NoError, MockError} :
          calls' = [calls EXCEPT ![c] = RunReturns(calls[c], finalState, e)]
    /\ UNCHANGED <<cfg, transitions, fa, err, origin, calc, mutations, mapOrder>>

\* Variant: the state is mapped first, and the acceptance check is made
\* only for a state that has a remainder.
CalculateAcceptAfterMap(c) ==
    /\ calls[c].pc = "accept"
    /\ IF stateToRemainder(calls[c].finalState) = -1
       THEN calls' = [calls EXCEPT ![c] =
               CalculateReturns(
                  Traced(calls[c], [method |-> "stateToRemainder",
                                    state |-> calls[c].finalState,
                                    result |-> -1]),
                  Sentinel,
                  [kind |-> "UnknownState", state |-> calls[c].finalState])]
       ELSE \E accepting \in (IF fa.kind = "Mock" THEN BOOLEAN
                               ELSE {IsAccepting(fa, calls[c].finalState)}) :
               LET call == Traced(calls[c], [method |-> "IsAccepting",
                                             state |-> calls[c].finalState,
                                             result |-> accepting])
               IN  calls' = [calls EXCEPT ![c] =
                      IF ~accepting
                      THEN CalculateReturns(call, Sentinel,
                              [kind |-> "NonAcceptingState", state |-> call.finalState])
                      ELSE [call EXCEPT !.pc = "map"]]
    /\ UNCHANGED <<cfg, transitions, fa, err, origin, calc, mutations, mapOrder>>

\* Variant: IsAccepting is called and its result ignored.
CalculateAcceptSkips(c) ==
    /\ calls[c].pc = "accept"
    /\ \E accepting \in (IF fa.kind = "Mock" THEN BOOLEAN
                         ELSE {IsAccepting(fa, calls[c].finalState)}) :
          LET call == Traced(calls[c], [method |-> "IsAccepting",
                                        state |-> calls[c].finalState,
                                        result |-> accepting])
          IN  calls' = [calls EXCEPT ![c] = [call EXCEPT !.pc = "map"]]
    /\ UNCHANGED <<cfg, transitions, fa, err, origin, calc, mutations, mapOrder>>

\* Step 2 of Calculate: the acceptance check.
CalculateAccept(c) ==
    /\ calls[c].pc = "accept"
    /\ \E accepting \in (IF fa.kind = "Mock" THEN BOOLEAN
                         ELSE {IsAccepting(fa, calls[c].finalState)}) :
          LET call == Traced(calls[c], [method |-> "IsAccepting",
                                        state |-> calls[c].finalState,
                                        result |-> accepting])
          IN  calls' = [calls EXCEPT ![c] =
                 IF ~accepting
                 THEN CalculateReturns(call, Sentinel,
                         [kind |-> "NonAcceptingState", state |-> call.finalState])
                 ELSE [call EXCEPT !.pc = "map"]]
    /\ UNCHANGED <<cfg, transitions, fa, err, origin, calc, mutations, mapOrder>>

\* Variant: the mapped value is returned without the -1 check.
CalculateMapUnchecked(c) ==
    /\ calls[c].pc = "map"
    /\ calls' = [calls EXCEPT ![c] =
          CalculateReturns(
             Traced(calls[c], [method |-> "stateToRemainder",
                               state |-> calls[c].finalState,
                               result |-> stateToRemainder(calls[c].finalState)]),
             stateToRemainder(calls[c].finalState), NoError)]
    /\ UNCHANGED <<cfg, transitions, fa, err, origin, calc, mutations, mapOrder>>

\* Step 3 of Calculate: the state-to-remainder mapping.
CalculateMap(c) ==
    LET remainder == stateToRemainder(calls[c].finalState)
        call == Traced(calls[c], [method |-> "stateToRemainder",
                                  state |-> calls[c].finalState,
                                  result |-> remainder])
    IN
    /\ calls[c].pc = "map"
    /\ calls' = [calls EXCEPT ![c] =
          IF remainder = -1
          THEN CalculateReturns(call, Sentinel,
                  [kind |-> "UnknownState", state |-> call.finalState])
          ELSE CalculateReturns(call, remainder, NoError)]
    /\ UNCHANGED <<cfg, transitions, fa, err, origin, calc, mutations, mapOrder>>

\* Characters of the enumerated inputs of Calculate: the two bits, a foreign
\* character, and the white space of the tests' inputs with one character
\* beyond ASCII.
CalcChars == {Symbol0, Symbol1, "A", " ", "\n", "\t", "\r", "U+00A0"}
CalcInputs == SeqsUpTo(CalcChars, MaxLen)

ConfigArgs(config) ==
    [states |-> config.States, alphabet |-> config.Alphabet,
     initialState |-> config.InitialState,
     acceptingStates |-> config.AcceptingStates]

\* The calculator exists before the first call: built by
\* NewModThreeCalculator from a configuration, or a ModThreeCalculator{fa: mock}.
InitCalc ==
    /\ calls = IdleCalls
    /\ mutations = 0
    /\ mapOrder = "ascending"
    /\ \/ \E config \in {GetModThreeConfig, GetTestModThreeConfig} :
             LET r == NewModThreeCalculator(config) IN
             /\ r.err = NoError
             /\ cfg = ConfigArgs(config)
             /\ transitions = config.Transitions
             /\ calc = r.calc
             /\ fa = r.calc.fa
             /\ err = r.err
             /\ origin = "new"
       \/ /\ cfg = NoCfg
          /\ transitions = EmptyMap
          /\ fa = MockFA
          /\ calc = [kind |-> "ModThreeCalculator", fa |-> MockFA]
          /\ err = NoError
          /\ origin = "mock"

NextCalc ==
    \/ \E c \in DOMAIN calls : \E input \in CalcInputs : BeginCalculate(c, input)
    \/ \E c \in DOMAIN calls : RunStep(c)
    \/ \E c \in DOMAIN calls : MockRunStep(c)
    \/ \E c \in DOMAIN calls : CalculateAccept(c)
    \/ \E c \in DOMAIN calls : CalculateMap(c)

SpecCalc == InitCalc /\ [][NextCalc]_vars

----------------------------------------------------------------------------
(* NewModThreeCalculator on the caller's configurations                     *)

\* One call of NewModThreeCalculator with a configuration of the caller.
ConstructCalculator ==
    /\ cfg = NoCfg
    /\ \E states \in SeqsUpTo(CfgStates, MaxList),
          alphabet \in SeqsUpTo(CfgSymbols, MaxList),
          initialState \in CfgStates,
          acceptingStates \in SeqsUpTo(CfgAccepting, MaxList),
          trans \in Tables(CfgStates, CfgSymbols, CfgStates) :
          LET config == [States |-> states, Alphabet |-> alphabet,
                         InitialState |-> initialState,
                         AcceptingStates |-> acceptingStates,
                         Transitions |-> trans]
              r == NewModThreeCalculator(config)
          IN  /\ cfg' = ConfigArgs(config)
              /\ transitions' = trans
              /\ calc' = r.calc
              /\ fa' = IF r.calc = NilCalc THEN NilFA ELSE r.calc.fa
              /\ err' = r.err
              /\ origin' = IF r.err = NoError THEN "new" ELSE "none"
    /\ mapOrder' \in MapOrders
    /\ UNCHANGED <<calls, mutations>>

NextNewCalc == ConstructCalculator

SpecNewCalc == InitNew /\ [][NextNewCalc]_vars

----------------------------------------------------------------------------
(* Several calls in flight on one automaton                                 *)

\* Several goroutines call Run and Calculate on the same automaton; every
\* step of every call may be followed by a step of any other call.
ConcChars == {Symbol0, Symbol1, "A"}
ConcInputs == SeqsUpTo(ConcChars, MaxConcLen)
ConcTables == Tables(CfgStates, {Symbol0}, CfgStates)

InitConc ==
    /\ calls = [c \in 1..NumCalls |-> [pc |-> "idle"]]
    /\ mutations = 0
    /\ mapOrder = "ascending"
    /\ err = NoError
    /\ \/ LET r == NewModThreeCalculator(GetModThreeConfig) IN
          /\ cfg = ConfigArgs(GetModThreeConfig)
          /\ transitions = GetModThreeConfig.Transitions
          /\ calc = r.calc
          /\ fa = r.calc.fa
          /\ origin = "new"
       \/ \E q0 \in CfgStates, trans \in ConcTables :
             /\ cfg = NoCfg
             /\ transitions = trans
             /\ calc = NilCalc
             /\ fa = Literal(q0)
             /\ origin = "literal"

NextConc ==
    \/ \E c \in DOMAIN calls : \E input \in ConcInputs : BeginRun(c, input)
    \/ \E c \in DOMAIN calls : \E input \in ConcInputs : BeginCalculate(c, input)
    \/ \E c \in DOMAIN calls : RunStep(c)
    \/ \E c \in DOMAIN calls : CalculateAccept(c)
    \/ \E c \in DOMAIN calls : CalculateMap(c)

SpecConc == InitConc /\ [][NextConc]_vars

----------------------------------------------------------------------------
(* Calculate calls one after the other, src/main.go                         *)

\* The configurations the client may build its calculator from: between
\* them Calculate can fail in each of its three ways.
SeqConfigs == {GetModThreeConfig, GetTestModThreeConfig, UnknownStateConfig}

\* The client builds one calculator and calls Calculate on it SeqCalls
\* times, each call after the one before has returned; the results of the
\* earlier calls stay in the client's variables.
InitSeq ==
    /\ calls = [k \in 1..SeqCalls |-> [pc |-> "idle"]]
    /\ mutations = 0
    /\ mapOrder = "ascending"
    /\ \E config \in SeqConfigs :
          LET r == NewModThreeCalculator(config) IN
          /\ cfg = ConfigArgs(config)
          /\ transitions = config.Transitions
          /\ calc = r.calc
          /\ fa = r.calc.fa
          /\ err = r.err
          /\ origin = "new"

\* The k-th call of the client.
CalculateNext(k, input) ==
    /\ calls[k].pc = "idle"
    /\ k > 1 => calls[k - 1].pc = "done"
    /\ BeginCalculate(k, input)

NextSeq ==
    \/ \E k \in DOMAIN calls : \E input \in ConcInputs : CalculateNext(k, input)
    \/ \E k \in DOMAIN calls : RunStep(k)
    \/ \E k \in DOMAIN calls : CalculateAccept(k)
    \/ \E k \in DOMAIN calls : CalculateMap(k)

SpecSeq == InitSeq /\ [][NextSeq]_vars

----------------------------------------------------------------------------
(* The two predicates of the engine, src/fsm/fsm.go                         *)

\* A client calls fa.IsAccepting(state).
CallIsAccepting(c, state) ==
    /\ Callable(c)
    /\ fa.kind = "FiniteAutomaton"
    /\ calls' = [calls EXCEPT ![c] =
          [pc |-> "done", op |-> "IsAccepting", state |-> state,
           result |-> IsAccepting(fa, state)]]
    /\ UNCHANGED <<cfg, transitions, fa, err, origin, calc, mutations, mapOrder>>

\* A client calls fa.ValidateInput(input).
CallValidateInput(c, input) ==
    /\ Callable(c)
    /\ fa.kind = "FiniteAutomaton"
    /\ calls' = [calls EXCEPT ![c] =
          [pc |-> "done", op |-> "ValidateInput", input |-> input,
           result |-> ValidateInput(fa, input)]]
    /\ UNCHANGED <<cfg, transitions, fa, err, origin, calc, mutations, mapOrder>>

\* States asked about: declared ones, an undeclared one and the empty string.
QueryStates == CfgStates \cup {StateS2, ""}
QueryInputs == SeqsUpTo(ConcChars, MaxLen)

\* Neither predicate reads the table: each configuration comes with the
\* table that sends every declared state on every declared symbol to the
\* initial state.
QueryTable(states, alphabet, initialState) ==
    [s \in Range(states) |-> [a \in Range(alphabet) |-> initialState]]

\* The automaton was returned by the validating constructor; the caller
\* still has the lists it passed.
InitQuery ==
    /\ calc = NilCalc
    /\ calls = IdleCalls
    /\ mutations = 0
    /\ mapOrder = "ascending"
    /\ \E states \in SeqsUpTo(CfgStates, MaxList),
          alphabet \in SeqsUpTo(CfgSymbols, MaxList),
          initialState \in CfgStates,
          acceptingStates \in SeqsUpTo(CfgStates, MaxList) :
          LET trans == QueryTable(states, alphabet, initialState)
              r == NewFiniteAutomaton(states, alphabet, initialState,
                                      acceptingStates, trans)
          IN  /\ r.err = NoError
              /\ cfg = [states |-> states, alphabet |-> alphabet,
                        initialState |-> initialState,
                        acceptingStates |-> acceptingStates]
              /\ transitions = trans
              /\ fa = r.fa
              /\ err = r.err
              /\ origin = "new"

NextQuery ==
    \/ \E c \in DOMAIN calls : \E state \in QueryStates : CallIsAccepting(c, state)
    \/ \E c \in DOMAIN calls : \E input \in QueryInputs : CallValidateInput(c, input)

SpecQuery == InitQuery /\ [][NextQuery]_vars

----------------------------------------------------------------------------
(* Construction followed by runs, src/fsm/fsm.go                            *)

\* One call of the constructor with a configuration of the caller, then
\* calls of Run on the automaton it returned.
NextNewRun ==
    \/ Construct
    \/ \E c \in DOMAIN calls : \E input \in RunInputs : BeginRun(c, input)
    \/ \E c \in DOMAIN calls : RunStep(c)

SpecNewRun == InitNew /\ [][NextNewRun]_vars

----------------------------------------------------------------------------
(* The error-less entry point ModThree, src/unnamed/part_000                *)

\* Variant: the hand-assembled automaton with the targets of S2 exchanged.
ModThreeFASwapped ==
    [kind |-> "FiniteAutomaton",
     States |-> <<StateS0, StateS1, StateS2>>,
     Alphabet |-> <<Symbol0, Symbol1>>,
     InitialState |-> StateS0,
     AcceptingStates |-> <<StateS0, StateS1, StateS2>>,
     Transitions |->
        (StateS0 :> (Symbol0 :> StateS0 @@ Symbol1 :> StateS1)) @@
        (StateS1 :> (Symbol0 :> StateS2 @@ Symbol1 :> StateS0)) @@
        (StateS2 :> (Symbol0 :> StateS2 @@ Symbol1 :> StateS1))]

\* ModThreeFA: a struct literal with slice fields and a table of its own;
\* no constructor validates it.
ModThreeFA ==
    [kind |-> "FiniteAutomaton",
     States |-> <<StateS0, StateS1, StateS2>>,
     Alphabet |-> <<Symbol0, Symbol1>>,
     InitialState |-> StateS0,
     AcceptingStates |-> <<StateS0, StateS1, StateS2>>,
     Transitions |->
        (StateS0 :> (Symbol0 :> StateS0 @@ Symbol1 :> StateS1)) @@
        (StateS1 :> (Symbol0 :> StateS2 @@ Symbol1 :> StateS0)) @@
        (StateS2 :> (Symbol0 :> StateS1 @@ Symbol1 :> StateS2))]

StateToRemainder(state) ==
    CASE state = StateS0 -> 0
      [] state = StateS1 -> 1
      [] state = StateS2 -> 2
      [] OTHER -> -1

ModThreeReturns(call, result) ==
    [pc |-> "done", op |-> "ModThree", input |-> call.input, result |-> result]

\* The client calls ModThree on the input it has just given to Calculate:
\* the blank-input shortcut of modThree, else the entry of the Run of the
\* hand-assembled automaton.
BeginModThree(c) ==
    /\ calls[c].pc = "idle"
    /\ c > 1
    /\ calls[c - 1].pc = "done" /\ calls[c - 1].op = "Calculate"
    /\ LET input == calls[c - 1].input IN
       calls' = [calls EXCEPT ![c] =
          IF TrimSpace(input) = EmptyString
          THEN ModThreeReturns([input |-> input], 0)
          ELSE [pc |-> "legacyrun", op |-> "ModThree", input |-> input, i |-> 1,
                currentState |-> ModThreeFA.InitialState]]
    /\ UNCHANGED <<cfg, transitions, fa, err, origin, calc, mutations, mapOrder>>

\* One turn of the loop of the Run beside ModThreeFA, or its return and the
\* rest of modThree: -1 on an error, else the remainder of the final state.
ModThreeRunStep(c) ==
    LET call == calls[c] IN
    /\ call.pc = "legacyrun"
    /\ IF call.i > Len(call.input)
       THEN calls' = [calls EXCEPT ![c] =
               ModThreeReturns(call, StateToRemainder(call.currentState))]
       ELSE LET it == RunIteration(ModThreeFA.Transitions, call.currentState,
                                   call.input[call.i])
            IN  IF it.err # NoError
                THEN calls' = [calls EXCEPT ![c] = ModThreeReturns(call, -1)]
                ELSE calls' = [calls EXCEPT ![c] =
                        [call EXCEPT !.currentState = it.nextState,
                                     !.i = call.i + 1]]
    /\ UNCHANGED <<cfg, transitions, fa, err, origin, calc, mutations, mapOrder>>

\* The client has the calculator NewModThreeCalculator(GetModThreeConfig())
\* returned, and the package function ModThree.
InitLegacy ==
    /\ calls = [k \in 1..2 |-> [pc |-> "idle"]]
    /\ mutations = 0
    /\ mapOrder = "ascending"
    /\ LET config == GetModThreeConfig
           r == NewModThreeCalculator(config) IN
       /\ r.err = NoError
       /\ cfg = ConfigArgs(config)
       /\ transitions = config.Transitions
       /\ calc = r.calc
       /\ fa = r.calc.fa
       /\ err = r.err
       /\ origin = "new"

NextLegacy ==
    \/ \E input \in CalcInputs : calls[1].pc = "idle" /\ BeginCalculate(1, input)
    \/ RunStep(1)
    \/ CalculateAccept(1)
    \/ CalculateMap(1)
    \/ BeginModThree(2)
    \/ ModThreeRunStep(2)

SpecLegacy == InitLegacy /\ [][NextLegacy]_vars

\* A client that uses all three methods of one constructed automaton, one
\* call after the other.
NextUse ==
    \/ \E c \in DOMAIN calls : \E input \in RunInputs : BeginRun(c, input)
    \/ \E c \in DOMAIN calls : RunStep(c)
    \/ \E c \in DOMAIN calls : \E state \in QueryStates : CallIsAccepting(c, state)
    \/ \E c \in DOMAIN calls : \E input \in QueryInputs : CallValidateInput(c, input)

\* The automaton was returned by the validating constructor for some
\* configuration and table; the caller still has what it passed.
InitUse ==
    /\ calc = NilCalc
    /\ calls = IdleCalls
    /\ mutations = 0
    /\ mapOrder = "ascending"
    /\ \E states \in SeqsUpTo(CfgStates, MaxList),
          alphabet \in SeqsUpTo(CfgSymbols, MaxList),
          initialState \in CfgStates,
          acceptingStates \in SeqsUpTo(CfgStates, MaxList),
          trans \in Tables(CfgStates, CfgSymbols, CfgStates) :
          LET r == NewFiniteAutomaton(states, alphabet, initialState,
                                      acceptingStates, trans)
          IN  /\ r.err = NoError
              /\ cfg = [states |-> states, alphabet |-> alphabet,
                        initialState |-> initialState,
                        acceptingStates |-> acceptingStates]
              /\ transitions = trans
              /\ fa = r.fa
              /\ err = r.err
              /\ origin = "new"

SpecUse == InitUse /\ [][NextUse]_vars

----------------------------------------------------------------------------
(* Properties                                                               *)

Done(c, op) == calls[c].pc = "done" /\ calls[c].op = op

\* The calculator in use is the one NewModThreeCalculator(GetModThreeConfig())
\* returned.
OnModThreeConfig ==
    /\ origin = "new"
    /\ calc # NilCalc
    /\ cfg = ConfigArgs(GetModThreeConfig)

IsBinary(input) == Range(input) \subseteq {"0", "1"}

Pow2(n) == 2 ^ n

\* The number a string of bits denotes, most significant bit first.
RECURSIVE BinarySum(_, _)
BinarySum(w, k) ==
    IF k > Len(w) THEN 0
    ELSE (IF w[k] = "1" THEN Pow2(Len(w) - k) ELSE 0) + BinarySum(w, k + 1)
BinaryValue(w) == BinarySum(w, 1)

\* C1: on the calculator built from GetModThreeConfig, Calculate of a
\* non-empty string of '0' and '1' returns (N mod 3, nil), N being the string
\* read as a binary numeral, most significant bit first; the remainder is in
\* {0, 1, 2}.
C1_BinaryRemainder ==
    \A c \in DOMAIN calls :
        (OnModThreeConfig /\ Done(c, "Calculate")
            /\ calls[c].input # EmptyString /\ IsBinary(calls[c].input))
        => /\ calls[c].err = NoError
           /\ calls[c].remainder = BinaryValue(calls[c].input) % 3
           /\ calls[c].remainder \in {0, 1, 2}

C1_Witness ==
    \E c \in DOMAIN calls :
        /\ OnModThreeConfig /\ Done(c, "Calculate")
        /\ calls[c].input = <<"1", "0", "1">>
        /\ calls[c].remainder = 2

HasForeignChar(input) == \E k \in 1..Len(input) : input[k] \notin {"0", "1"}

\* C2 as stated: on the calculator built from GetModThreeConfig, every input
\* with at least one character outside {'0','1'} yields (-1, non-nil error).
C2_RejectsEveryForeignChar ==
    \A c \in DOMAIN calls :
        (OnModThreeConfig /\ Done(c, "Calculate") /\ HasForeignChar(calls[c].input))
        => calls[c].remainder = -1 /\ calls[c].err # NoError

\* C2 amended: on the calculator built from GetModThreeConfig, every input
\* that is not empty after trimming surrounding white space and has at least
\* one character outside {'0','1'} yields (-1, non-nil error), wherever that
\* character stands.
C2_RejectsForeignCharUnlessBlank ==
    \A c \in DOMAIN calls :
        (OnModThreeConfig /\ Done(c, "Calculate") /\ HasForeignChar(calls[c].input)
            /\ \E k \in 1..Len(calls[c].input) : calls[c].input[k] \notin WhiteSpace)
        => calls[c].remainder = -1 /\ calls[c].err # NoError

C2_Witness ==
    \E c \in DOMAIN calls :
        /\ OnModThreeConfig /\ Done(c, "Calculate")
        /\ calls[c].input = <<"1", "0", "A">>
        /\ calls[c].remainder = -1
        /\ calls[c].err.kind = "InvalidInputSymbol"

\* C3: for every calculator, on the real engine or on a substitute
\* Automaton, Calculate returns remainder -1 exactly when it returns a
\* non-nil error, and a nil error comes with a remainder in {0, 1, 2}.
C3_SentinelIffError ==
    \A c \in DOMAIN calls :
        Done(c, "Calculate")
        => /\ (calls[c].remainder = -1 <=> calls[c].err # NoError)
           /\ (calls[c].err = NoError => calls[c].remainder \in {0, 1, 2})

C3_Witness ==
    \E c \in DOMAIN calls :
        /\ origin = "mock" /\ Done(c, "Calculate")
        /\ calls[c].err.kind = "UnknownState"
        /\ calls[c].remainder = -1

\* The four construction invariants, read off a configuration.
InitialDeclared(args) == args.initialState \in Range(args.states)
AcceptingDeclared(args) == Range(args.acceptingStates) \subseteq Range(args.states)
TableComplete(args, trans) ==
    \A s \in Range(args.states) :
        /\ s \in DOMAIN trans
        /\ \A a \in Range(args.alphabet) : a \in DOMAIN trans[s]
TargetsDeclared(args, trans) ==
    \A s \in Range(args.states) \cap DOMAIN trans :
        \A a \in Range(args.alphabet) \cap DOMAIN trans[s] :
            trans[s][a] \in Range(args.states)

\* The same four, read off an automaton and the table it refers to.
AutomatonInvariants(automaton, trans) ==
    /\ automaton.InitialState \in automaton.States
    /\ automaton.AcceptingStates \subseteq automaton.States
    /\ \A s \in automaton.States :
          /\ s \in DOMAIN trans
          /\ \A a \in automaton.Alphabet :
                /\ a \in DOMAIN trans[s]
                /\ trans[s][a] \in automaton.States

\* The constructor has returned and the caller has not touched its data.
JustConstructed == cfg # NoCfg /\ mutations = 0

\* C4: NewFiniteAutomaton returns an automaton and no error exactly when
\* the configuration satisfies the four invariants; the automaton returned
\* has, for every declared state and symbol, a transition to a declared state.
C4_SuccessIffInvariants ==
    JustConstructed
    => /\ (err = NoError /\ fa # NilFA)
          <=> (/\ InitialDeclared(cfg) /\ AcceptingDeclared(cfg)
               /\ TableComplete(cfg, transitions) /\ TargetsDeclared(cfg, transitions))
       /\ (fa # NilFA
           => /\ fa.States = Range(cfg.states)
              /\ fa.Alphabet = Range(cfg.alphabet)
              /\ AutomatonInvariants(fa, transitions))

C4_Witness ==
    /\ JustConstructed /\ err = NoError /\ fa # NilFA
    /\ Cardinality(fa.States) = 2 /\ Cardinality(fa.Alphabet) = 2
    /\ transitions[StateS0][Symbol1] = StateS1

\* C5: with a configuration error the constructor returns no automaton.
C5_ErrorMeansNil ==
    cfg # NoCfg => (err # NoError => fa = NilFA /\ origin = "none")

C5_Witness ==
    /\ cfg # NoCfg /\ fa = NilFA
    /\ err.kind = "UndefinedTarget"
    /\ InitialDeclared(cfg) /\ AcceptingDeclared(cfg)

\* C6: the configuration error names the invariant that failed and the
\* identifier at fault: the undeclared initial state, the undeclared
\* accepting state, the declared state without a row, the (state, symbol)
\* without an entry, or the undeclared target with its (state, symbol).
C6_ErrorNamesOffender ==
    (JustConstructed /\ err # NoError)
    => LET declared == Range(cfg.states) IN
       CASE err.kind = "InitialStateNotInQ" ->
                err.state = cfg.initialState /\ err.state \notin declared
         [] err.kind = "AcceptingStateNotInQ" ->
                err.state \in Range(cfg.acceptingStates) /\ err.state \notin declared
         [] err.kind = "MissingTransitionRules" ->
                err.state \in declared /\ err.state \notin DOMAIN transitions
         [] err.kind = "MissingTransition" ->
                /\ err.state \in declared /\ err.symbol \in Range(cfg.alphabet)
                /\ err.state \in DOMAIN transitions
                /\ err.symbol \notin DOMAIN transitions[err.state]
         [] err.kind = "UndefinedTarget" ->
                /\ err.state \in declared /\ err.symbol \in Range(cfg.alphabet)
                /\ err.state \in DOMAIN transitions
                /\ err.symbol \in DOMAIN transitions[err.state]
                /\ err.target = transitions[err.state][err.symbol]
                /\ err.target \notin declared
         [] OTHER -> FALSE

C6_Witness ==
    /\ JustConstructed
    /\ err.kind = "MissingTransitionRules"
    /\ err.state = StateS1
    /\ StateS0 \in DOMAIN transitions

\* C7: a successfully constructed automaton satisfies the four invariants
\* in every later state, whatever the caller does with the table and the
\* lists it passed to the constructor.
C7_InvariantsForLife ==
    origin = "new" => AutomatonInvariants(fa, transitions)

----------------------------------------------------------------------------
(* Run, read as the extension of the transition table to strings            *)

Stuck == "<stuck>"
Front(w) == SubSeq(w, 1, Len(w) - 1)

\* The state the table leads to from q0 over w, taking the symbols from
\* left to right; Stuck when some lookup on the way is not defined.
RECURSIVE DeltaHat(_, _, _)
DeltaHat(trans, q0, w) ==
    IF w = <<>> THEN q0
    ELSE LET p == DeltaHat(trans, q0, Front(w)) IN
         IF p = Stuck THEN Stuck
         ELSE IF p \notin DOMAIN trans THEN Stuck
         ELSE IF w[Len(w)] \notin DOMAIN trans[p] THEN Stuck
         ELSE trans[p][w[Len(w)]]

\* C8: when every lookup along the input is defined, Run returns, with no
\* error, the state reached from InitialState by one transition per symbol,
\* left to right.
C8_RunFollowsTable ==
    \A c \in DOMAIN calls :
        (Done(c, "Run")
            /\ DeltaHat(transitions, fa.InitialState, calls[c].input) # Stuck)
        => /\ calls[c].err = NoError
           /\ calls[c].finalState =
                 DeltaHat(transitions, fa.InitialState, calls[c].input)

C8_Witness ==
    \E c \in DOMAIN calls :
        /\ Done(c, "Run") /\ origin = "literal"
        /\ calls[c].input = <<"0", "1", "1">>
        /\ calls[c].err = NoError
        /\ calls[c].finalState # fa.InitialState
        /\ transitions[fa.InitialState]["0"] # fa.InitialState

\* C9: Run of the empty input returns InitialState and no error on every
\* automaton, also a hand-assembled one whose table is empty or has no row
\* for InitialState.
C9_EmptyInputYieldsInitial ==
    \A c \in DOMAIN calls :
        (Done(c, "Run") /\ calls[c].input = EmptyString)
        => calls[c].finalState = fa.InitialState /\ calls[c].err = NoError

C9_Witness ==
    \E c \in DOMAIN calls :
        /\ Done(c, "Run") /\ calls[c].input = EmptyString
        /\ origin = "literal" /\ transitions = EmptyMap
        /\ calls[c].finalState = StateS1

\* The first position of w at which no step can be taken.
FirstStuck(trans, q0, w) ==
    CHOOSE k \in 1..Len(w) :
        /\ DeltaHat(trans, q0, SubSeq(w, 1, k)) = Stuck
        /\ DeltaHat(trans, q0, SubSeq(w, 1, k - 1)) # Stuck

\* C10: Run fails exactly when some step cannot be taken, and at the first
\* such step the error depends on the state reached so far: without a row,
\* the missing-row error naming that state; with a row lacking the symbol,
\* the invalid-symbol error naming that state and symbol; no other error.
C10_ErrorClassifiedByState ==
    \A c \in DOMAIN calls :
        (Done(c, "Run") /\ calls[c].err # NoError)
        => /\ DeltaHat(transitions, fa.InitialState, calls[c].input) = Stuck
           /\ LET w == calls[c].input
                  k == FirstStuck(transitions, fa.InitialState, w)
                  s == DeltaHat(transitions, fa.InitialState, SubSeq(w, 1, k - 1))
              IN  IF s \notin DOMAIN transitions
                  THEN calls[c].err = [kind |-> "TransitionRuleMissing", state |-> s]
                  ELSE calls[c].err = [kind |-> "InvalidInputSymbol",
                                       symbol |-> w[k], state |-> s]

C10_Witness ==
    \E c \in DOMAIN calls :
        /\ Done(c, "Run")
        /\ calls[c].err.kind = "TransitionRuleMissing"
        /\ calls[c].steps = 2
        /\ calls[c].err.state # fa.InitialState

\* C11: when Run fails at a symbol it stops there: the state returned is
\* the empty string, not the state reached so far, and the failing symbol is
\* the last one looked up.
C11_FailureStopsRun ==
    \A c \in DOMAIN calls :
        (Done(c, "Run") /\ calls[c].err # NoError)
        => LET k == FirstStuck(transitions, fa.InitialState, calls[c].input) IN
           /\ calls[c].finalState = ""
           /\ calls[c].lookups = k
           /\ calls[c].steps = k - 1

C11_Witness ==
    \E c \in DOMAIN calls :
        /\ Done(c, "Run") /\ calls[c].err.kind = "InvalidInputSymbol"
        /\ Len(calls[c].input) = 3
        /\ calls[c].lookups = 2
        /\ calls[c].err.state # fa.InitialState
        /\ calls[c].finalState = ""

\* C12: on an automaton returned by NewFiniteAutomaton, Run never returns
\* the missing-row error, whatever the input, symbols outside the declared
\* alphabet included.
C12_NoMissingRowAfterConstructor ==
    \A c \in DOMAIN calls :
        (origin = "new" /\ Done(c, "Run"))
        => calls[c].err.kind # "TransitionRuleMissing"

\* What Run returns for input w when nothing else is going on, read off
\* the table: the state the table leads to, or the error of the first step
\* that cannot be taken.
RunAlone(w) ==
    LET q0 == fa.InitialState
        end == DeltaHat(transitions, q0, w)
    IN  IF end # Stuck THEN [state |-> end, err |-> NoError]
        ELSE LET k == FirstStuck(transitions, q0, w)
                 s == DeltaHat(transitions, q0, SubSeq(w, 1, k - 1))
             IN  [state |-> "",
                  err |-> IF s \notin DOMAIN transitions
                          THEN [kind |-> "TransitionRuleMissing", state |-> s]
                          ELSE [kind |-> "InvalidInputSymbol", symbol |-> w[k],
                                state |-> s]]

\* What Calculate returns for input w when nothing else is going on.
CalculateAlone(w) ==
    IF \A k \in 1..Len(w) : w[k] \in WhiteSpace
    THEN [remainder |-> 0, err |-> NoError]
    ELSE LET r == RunAlone(w) IN
         IF r.err # NoError THEN [remainder |-> -1, err |-> r.err]
         ELSE IF r.state \notin fa.AcceptingStates
         THEN [remainder |-> -1, err |-> [kind |-> "NonAcceptingState", state |-> r.state]]
         ELSE IF r.state = "S0" THEN [remainder |-> 0, err |-> NoError]
         ELSE IF r.state = "S1" THEN [remainder |-> 1, err |-> NoError]
         ELSE IF r.state = "S2" THEN [remainder |-> 2, err |-> NoError]
         ELSE [remainder |-> -1, err |-> [kind |-> "UnknownState", state |-> r.state]]

\* C13: with Run and Calculate calls interleaved step by step on one
\* automaton, the cursor of each call in flight is the state its own
\* consumed prefix leads to, and each call returns what it returns alone.
C13_InterleavedCallsAsAlone ==
    \A c \in DOMAIN calls :
        /\ calls[c].pc = "run"
           => calls[c].currentState =
                 DeltaHat(transitions, fa.InitialState,
                          SubSeq(calls[c].input, 1, calls[c].i - 1))
        /\ Done(c, "Run")
           => /\ calls[c].finalState = RunAlone(calls[c].input).state
              /\ calls[c].err = RunAlone(calls[c].input).err
        /\ Done(c, "Calculate")
           => /\ calls[c].remainder = CalculateAlone(calls[c].input).remainder
              /\ calls[c].err = CalculateAlone(calls[c].input).err

\* Two calls are inside the loop at once, one a Run and one a Calculate,
\* each having consumed a symbol, with different cursors.
C13_Witness ==
    /\ calls[1].pc = "run" /\ calls[1].op = "Run" /\ calls[1].i = 2
    /\ calls[2].pc = "run" /\ calls[2].op = "Calculate" /\ calls[2].i = 2
    /\ calls[1].currentState # calls[2].currentState

\* C14: for a fixed automaton, two Run calls with the same input return
\* the same state and the same error, whatever was run on the automaton
\* before either of them.
C14_SameInputSameResult ==
    \A c, d \in DOMAIN calls :
        (Done(c, "Run") /\ Done(d, "Run") /\ calls[c].input = calls[d].input)
        => /\ calls[c].finalState = calls[d].finalState
           /\ calls[c].err = calls[d].err

C14_Witness ==
    /\ Done(1, "Run") /\ Done(2, "Run")
    /\ calls[1].input = <<"0", "0">>
    /\ calls[2].input = <<"0", "0">>
    /\ calls[1].finalState # fa.InitialState
    /\ calls[1].err = NoError

Blank(input) == \A k \in 1..Len(input) : input[k] \in WhiteSpace

\* C15: for every calculator, on the real engine or on a substitute
\* Automaton, an input that is empty after trimming surrounding white space
\* yields (0, nil) and no method of the automaton is called.
C15_BlankInputShortcut ==
    \A c \in DOMAIN calls :
        (Done(c, "Calculate") /\ Blank(calls[c].input))
        => /\ calls[c].remainder = 0
           /\ calls[c].err = NoError
           /\ calls[c].trace = <<>>

C15_Witness ==
    \E c \in DOMAIN calls :
        /\ origin = "mock" /\ Done(c, "Calculate")
        /\ calls[c].input = <<"\t", "\n", "\r">>
        /\ calls[c].remainder = 0
        /\ calls[c].trace = <<>>

\* The first character of the input that is not a bit.
FirstForeign(input) ==
    input[CHOOSE k \in 1..Len(input) :
             /\ input[k] \notin {"0", "1"}
             /\ \A j \in 1..(k - 1) : input[j] \in {"0", "1"}]

\* C16: on the calculator built from GetModThreeConfig, an input that is
\* not all white space but has a white-space character anywhere reaches Run
\* untrimmed: the result is -1 with Run's invalid-symbol error for the first
\* non-bit character of the input as given, and nothing after Run is called.
C16_WhitespaceNotTrimmedForRun ==
    \A c \in DOMAIN calls :
        (OnModThreeConfig /\ Done(c, "Calculate") /\ ~Blank(calls[c].input)
            /\ \E k \in 1..Len(calls[c].input) : calls[c].input[k] \in WhiteSpace)
        => /\ calls[c].remainder = -1
           /\ calls[c].err.kind = "InvalidInputSymbol"
           /\ calls[c].err.symbol = FirstForeign(calls[c].input)
           /\ Len(calls[c].trace) = 1
           /\ calls[c].trace[1].method = "Run"
           /\ calls[c].trace[1].err = calls[c].err

C16_Witness ==
    \E c \in DOMAIN calls :
        /\ OnModThreeConfig /\ Done(c, "Calculate")
        /\ calls[c].input = <<"1", "0", "\n">>
        /\ calls[c].remainder = -1
        /\ calls[c].err = [kind |-> "InvalidInputSymbol", symbol |-> "\n",
                           state |-> "S2"]

\* C17 as stated: on the real engine, a non-blank input with a character
\* outside the automaton's alphabet yields -1 with the invalid-input error
\* of the calculator, and Run is not called.
C17_ValidatesBeforeRun ==
    \A c \in DOMAIN calls :
        (Done(c, "Calculate") /\ fa.kind = "FiniteAutomaton"
            /\ ~Blank(calls[c].input) /\ ~ValidateInput(fa, calls[c].input))
        => /\ calls[c].remainder = -1
           /\ calls[c].err.kind = "InvalidInput"
           /\ calls[c].trace = <<>>

\* C18: for every calculator, when Run returns an error Calculate returns
\* -1 with that same error, and neither IsAccepting nor stateToRemainder is
\* called.
C18_RunErrorPropagated ==
    \A c \in DOMAIN calls :
        (Done(c, "Calculate") /\ calls[c].trace # <<>>
            /\ calls[c].trace[1].err # NoError)
        => /\ calls[c].remainder = -1
           /\ calls[c].err = calls[c].trace[1].err
           /\ Len(calls[c].trace) = 1

C18_Witness ==
    \E c \in DOMAIN calls :
        /\ origin = "mock" /\ Done(c, "Calculate")
        /\ calls[c].trace = <<[method |-> "Run", state |-> "S1", err |-> MockError]>>
        /\ calls[c].remainder = -1
        /\ calls[c].err = MockError

\* C19: for every calculator, when Run succeeds and IsAccepting answers
\* false for the terminal state, Calculate returns -1 with the non-accepting
\* error naming that state, also for S0, S1 and S2, and stateToRemainder is
\* not called.
C19_NonAcceptingRejected ==
    \A c \in DOMAIN calls :
        (Done(c, "Calculate") /\ Len(calls[c].trace) >= 2
            /\ calls[c].trace[2].method = "IsAccepting"
            /\ ~calls[c].trace[2].result)
        => /\ calls[c].remainder = -1
           /\ calls[c].err = [kind |-> "NonAcceptingState",
                              state |-> calls[c].trace[1].state]
           /\ Len(calls[c].trace) = 2

C19_Witness ==
    \E c \in DOMAIN calls :
        /\ cfg = ConfigArgs(GetTestModThreeConfig) /\ Done(c, "Calculate")
        /\ calls[c].input = <<"0">>
        /\ calls[c].trace[1] = [method |-> "Run", state |-> "S1", err |-> NoError]
        /\ calls[c].remainder = -1
        /\ calls[c].err = [kind |-> "NonAcceptingState", state |-> "S1"]

\* C20: for every calculator, when Run succeeds and IsAccepting answers
\* true, Calculate returns 0, 1 or 2 with no error for the terminal state
\* S0, S1 or S2, and -1 with the unknown-state error for any other state.
C20_MappingOrUnknownState ==
    \A c \in DOMAIN calls :
        (Done(c, "Calculate") /\ Len(calls[c].trace) >= 2
            /\ calls[c].trace[2].method = "IsAccepting"
            /\ calls[c].trace[2].result)
        => LET s == calls[c].trace[1].state
               result == <<calls[c].remainder, calls[c].err>>
           IN  /\ s = "S0" => result = <<0, NoError>>
               /\ s = "S1" => result = <<1, NoError>>
               /\ s = "S2" => result = <<2, NoError>>
               /\ s \notin {"S0", "S1", "S2"}
                  => result = <<-1, [kind |-> "UnknownState", state |-> s]>>

C20_Witness ==
    \E c \in DOMAIN calls :
        /\ origin = "mock" /\ Done(c, "Calculate")
        /\ Len(calls[c].trace) = 3
        /\ calls[c].trace[1] = [method |-> "Run", state |-> "S99", err |-> NoError]
        /\ calls[c].trace[2].result
        /\ calls[c].remainder = -1
        /\ calls[c].err = [kind |-> "UnknownState", state |-> "S99"]

\* C21: IsAccepting(state) is true exactly when state occurs in the
\* accepting-state list the automaton was constructed from, and false for
\* every other state: undeclared ones, the empty string, and every state
\* when the list is empty.
C21_IsAcceptingIffMember ==
    \A c \in DOMAIN calls :
        Done(c, "IsAccepting")
        => (calls[c].result
              <=> \E k \in 1..Len(cfg.acceptingStates) :
                     cfg.acceptingStates[k] = calls[c].state)

\* A declared state that is not accepting, next to one that is.
C21_Witness ==
    \E c \in DOMAIN calls :
        /\ Done(c, "IsAccepting")
        /\ cfg.states = <<"S0", "S1">>
        /\ cfg.acceptingStates = <<"S1">>
        /\ calls[c].state = "S0"
        /\ ~calls[c].result

\* C22: ValidateInput(input) is true exactly when every symbol of the
\* input occurs in the alphabet list the automaton was constructed from;
\* the empty input is valid for every alphabet.
C22_ValidateInputIffAllMembers ==
    \A c \in DOMAIN calls :
        Done(c, "ValidateInput")
        => (calls[c].result
              <=> \A i \in 1..Len(calls[c].input) :
                     \E k \in 1..Len(cfg.alphabet) :
                        cfg.alphabet[k] = calls[c].input[i])

\* A foreign symbol in the middle of an otherwise valid input.
C22_Witness ==
    \E c \in DOMAIN calls :
        /\ Done(c, "ValidateInput")
        /\ cfg.alphabet = <<"0">>
        /\ calls[c].input = <<"0", "1", "0">>
        /\ ~calls[c].result

\* C23: NewModThreeCalculator returns a calculator holding the engine's
\* automaton and no error exactly when NewFiniteAutomaton accepts the
\* configuration; otherwise it returns no calculator and an error that
\* wraps the engine's error, with its kind and offending identifier, under
\* the factory's context.
C23_FactoryWrapsEngineError ==
    cfg # NoCfg
    => LET r == NewFiniteAutomaton(cfg.states, cfg.alphabet, cfg.initialState,
                                   cfg.acceptingStates, transitions)
           valid == /\ InitialDeclared(cfg) /\ AcceptingDeclared(cfg)
                    /\ TableComplete(cfg, transitions)
                    /\ TargetsDeclared(cfg, transitions)
       IN  /\ (calc # NilCalc /\ err = NoError) <=> valid
           /\ valid => calc = [kind |-> "ModThreeCalculator", fa |-> r.fa]
           /\ ~valid => /\ calc = NilCalc
                        /\ err.kind = "FailedToInitializeFSMEngine"
                        /\ err.cause = r.err
                        /\ err.cause # NoError

\* The configuration of the test Config_Validation_Failure in small: the
\* initial state is missing from the state list.
C23_Witness ==
    /\ cfg # NoCfg /\ calc = NilCalc
    /\ cfg.states = <<"S1">> /\ cfg.initialState = "S0"
    /\ err = [kind |-> "FailedToInitializeFSMEngine",
              cause |-> [kind |-> "InitialStateNotInQ", state |-> "S0"]]

TableErrors == {"MissingTransitionRules", "MissingTransition", "UndefinedTarget"}

\* The least element of a non-empty set of indices.
Least(K) == CHOOSE k \in K : \A m \in K : k <= m

\* C25: an undeclared initial state is reported whatever else is wrong;
\* otherwise the first undeclared accepting state in list order is
\* reported whatever is wrong with the table; a table error is returned
\* only when the initial state and all accepting states are declared.
C25_CheckOrderAcrossClasses ==
    JustConstructed
    => LET declared == Range(cfg.states)
           acc == cfg.acceptingStates
           undeclared == {k \in 1..Len(acc) : acc[k] \notin declared}
       IN  /\ cfg.initialState \notin declared
              => err = [kind |-> "InitialStateNotInQ", state |-> cfg.initialState]
           /\ (cfg.initialState \in declared /\ undeclared # {})
              => err = [kind |-> "AcceptingStateNotInQ",
                        state |-> acc[Least(undeclared)]]
           /\ err.kind \in TableErrors
              => cfg.initialState \in declared /\ undeclared = {}

\* Two different undeclared accepting states and a table without rows.
C25_Witness ==
    /\ JustConstructed
    /\ cfg.states = <<"S0">> /\ cfg.initialState = "S0"
    /\ cfg.acceptingStates = <<"S2", "S1">>
    /\ transitions = EmptyMap
    /\ err = [kind |-> "AcceptingStateNotInQ", state |-> "S2"]

\* A declared state whose row is missing, incomplete or leads outside.
Defective(args, trans, s) ==
    \/ s \notin DOMAIN trans
    \/ \E a \in Range(args.alphabet) :
          \/ a \notin DOMAIN trans[s]
          \/ trans[s][a] \notin Range(args.states)

DefectiveAt(args, trans) ==
    {k \in 1..Len(args.states) : Defective(args, trans, args.states[k])}

\* The initial and accepting states pass, and the table has a defect.
TableReached ==
    /\ JustConstructed
    /\ InitialDeclared(cfg) /\ AcceptingDeclared(cfg)
    /\ DefectiveAt(cfg, transitions) # {}

\* C26 as stated: when the row of the first defective state lacks an entry
\* for a declared symbol and also has an entry with an undeclared target,
\* the missing-entry error is the one reported.
C26_CompletenessBeforeClosure ==
    TableReached
    => LET s == cfg.states[Least(DefectiveAt(cfg, transitions))] IN
       (/\ s \in DOMAIN transitions
        /\ \E a \in Range(cfg.alphabet) : a \notin DOMAIN transitions[s]
        /\ \E b \in DOMAIN transitions[s] :
              transitions[s][b] \notin Range(cfg.states))
       => err.kind = "MissingTransition" /\ err.state = s

\* C26 amended: the row of the first defective state is examined symbol by
\* symbol in alphabet list order, and the error is about the first symbol
\* with a defect: the missing-entry error when that symbol has no entry,
\* the undefined-target error when its entry leads to an undeclared state.
C26_FirstDefectiveSymbolReported ==
    TableReached
    => LET s == cfg.states[Least(DefectiveAt(cfg, transitions))] IN
       s \in DOMAIN transitions
       => LET row == transitions[s]
              a == cfg.alphabet[Least({j \in 1..Len(cfg.alphabet) :
                      \/ cfg.alphabet[j] \notin DOMAIN row
                      \/ row[cfg.alphabet[j]] \notin Range(cfg.states)})]
          IN  err = IF a \notin DOMAIN row
                    THEN [kind |-> "MissingTransition", state |-> s, symbol |-> a]
                    ELSE [kind |-> "UndefinedTarget", state |-> s, symbol |-> a,
                          target |-> row[a]]

\* The row of S0 leads outside on "0" and has no entry for "1".
C26_Witness ==
    /\ TableReached
    /\ cfg.states = <<"S0">> /\ cfg.alphabet = <<"0", "1">>
    /\ "S0" \in DOMAIN transitions
    /\ DOMAIN transitions["S0"] = {"0"}
    /\ err = [kind |-> "UndefinedTarget", state |-> "S0", symbol |-> "0",
              target |-> "S1"]

\* C27: when the table is defective the error is about the first defective
\* state of the state list, whatever the defects of the later states.
C27_FirstDefectiveStateReported ==
    TableReached
    => /\ err.kind \in TableErrors
       /\ err.state = cfg.states[Least(DefectiveAt(cfg, transitions))]

\* Both declared states are defective, in different ways.
C27_Witness ==
    /\ TableReached
    /\ cfg.states = <<"S1", "S0">> /\ cfg.alphabet = <<"0">>
    /\ DOMAIN transitions = {"S1"}
    /\ DOMAIN transitions["S1"] = {}
    /\ err = [kind |-> "MissingTransition", state |-> "S1", symbol |-> "0"]

C24_CalculateCallsIndependent ==
    /\ \A k \in DOMAIN calls :
          Done(k, "Calculate")
          => /\ calls[k].remainder = CalculateAlone(calls[k].input).remainder
             /\ calls[k].err = CalculateAlone(calls[k].input).err
    /\ \A j, k \in DOMAIN calls :
          (Done(j, "Calculate") /\ Done(k, "Calculate")
              /\ calls[j].input = calls[k].input)
          => /\ calls[j].remainder = calls[k].remainder
             /\ calls[j].err = calls[k].err
    /\ \E config \in SeqConfigs :
          /\ cfg = ConfigArgs(config)
          /\ transitions = config.Transitions
          /\ calc = NewModThreeCalculator(config).calc
          /\ fa = calc.fa

\* The first call ended in the state without a remainder and failed with
\* the unknown-state error; the second call, one symbol longer, succeeded.
C24_Witness ==
    /\ cfg = ConfigArgs(UnknownStateConfig)
    /\ Done(1, "Calculate") /\ calls[1].input = <<"1">>
    /\ calls[1].err = [kind |-> "UnknownState", state |-> "S99"]
    /\ calls[1].remainder = -1
    /\ Done(2, "Calculate") /\ calls[2].input = <<"1", "1">>
    /\ calls[2].remainder = 0 /\ calls[2].err = NoError

\* C29: for every calculator, when Run succeeds with a state that has no
\* remainder and IsAccepting answers false for it, the error is the
\* non-accepting one and stateToRemainder has not been called.
C29_AcceptanceBeforeMapping ==
    \A c \in DOMAIN calls :
        (Done(c, "Calculate") /\ calls[c].trace # <<>>
            /\ calls[c].trace[1].err = NoError
            /\ calls[c].trace[1].state \notin {"S0", "S1", "S2"}
            /\ calls[c].err # NoError)
        => LET called == {calls[c].trace[k].method : k \in 1..Len(calls[c].trace)} IN
           /\ "IsAccepting" \in called
           /\ calls[c].err.kind = "UnknownState" <=> calls[c].trace[2].result
           /\ calls[c].err.kind = "NonAcceptingState" <=> ~calls[c].trace[2].result
           /\ ~calls[c].trace[2].result => "stateToRemainder" \notin called

C29_Witness ==
    \E c \in DOMAIN calls :
        /\ origin = "mock" /\ Done(c, "Calculate")
        /\ Len(calls[c].trace) = 2
        /\ calls[c].trace[1] = [method |-> "Run", state |-> "S99", err |-> NoError]
        /\ calls[c].trace[2] = [method |-> "IsAccepting", state |-> "S99",
                                result |-> FALSE]
        /\ calls[c].err = [kind |-> "NonAcceptingState", state |-> "S99"]

\* C30: on the calculator built from GetModThreeConfig, Calculate never
\* returns the non-accepting or the unknown-state error: it succeeds on
\* every input of bits and on blank input, and every failure is Run's
\* error for a symbol outside {'0','1'}.
C30_BranchesUnreachableOnModThree ==
    \A c \in DOMAIN calls :
        (OnModThreeConfig /\ Done(c, "Calculate"))
        => /\ calls[c].err.kind \in {"nil", "InvalidInputSymbol"}
           /\ calls[c].err.kind = "InvalidInputSymbol"
              => calls[c].err.symbol \notin {"0", "1"}
           /\ IsBinary(calls[c].input) => calls[c].err = NoError

\* A call that went through the acceptance check and the mapping from S1.
C30_Witness ==
    \E c \in DOMAIN calls :
        /\ OnModThreeConfig /\ Done(c, "Calculate")
        /\ calls[c].input = <<"1", "1", "1">>
        /\ Len(calls[c].trace) = 3
        /\ calls[c].trace[2] = [method |-> "IsAccepting", state |-> "S1",
                                result |-> TRUE]
        /\ calls[c].remainder = 1

\* The state that stands for a remainder, and the bit a symbol denotes.
RemainderState(r) == CASE r = 0 -> "S0" [] r = 1 -> "S1" [] r = 2 -> "S2"
Bit(symbol) == IF symbol = "1" THEN 1 ELSE 0

\* C31: on the calculator built from GetModThreeConfig, while Run consumes
\* bits the current state after every consumed prefix p is S_k with
\* k = (binary value of p) mod 3, S0 for the empty prefix; the table takes
\* remainder R on bit b to remainder (2R + b) mod 3.
C31_StepInvariant ==
    OnModThreeConfig
    => /\ \A c \in DOMAIN calls :
             calls[c].pc = "run"
             => LET p == SubSeq(calls[c].input, 1, calls[c].i - 1) IN
                IsBinary(p)
                => calls[c].currentState = RemainderState(BinaryValue(p) % 3)
       /\ \A r \in 0..2, symbol \in {"0", "1"} :
             transitions[RemainderState(r)][symbol]
                = RemainderState((2 * r + Bit(symbol)) % 3)

\* The prefix 101 (five) has been consumed.
C31_Witness ==
    \E c \in DOMAIN calls :
        /\ OnModThreeConfig /\ calls[c].pc = "run"
        /\ calls[c].input = <<"1", "0", "1">> /\ calls[c].i = 4
        /\ calls[c].currentState = "S2"

\* Counters of a Run call: one lookup per turn of the loop, never more
\* lookups than symbols; Len(input) steps on success, one step less than
\* lookups on failure.
RunCounters(call) ==
    /\ call.pc = "run"
       => /\ call.i \in 1..(Len(call.input) + 1)
          /\ call.lookups = call.i - 1
    /\ (call.pc = "done" /\ call.op = "Run")
       => /\ call.lookups <= Len(call.input)
          /\ call.err = NoError
             => call.steps = Len(call.input) /\ call.lookups = Len(call.input)
          /\ call.err # NoError
             => call.steps = call.lookups - 1

\* C32: every Run call that has started returns; it makes one lookup per
\* symbol at most, takes Len(input) steps on success and as many steps as
\* symbols precede the failing one on failure, and the index into the
\* input goes up by one at every turn of the loop.
C32_RunTerminatesLinear ==
    /\ [](\A c \in DOMAIN calls : RunCounters(calls[c]))
    /\ [][\A c \in DOMAIN calls :
             (calls[c].pc = "run" /\ calls'[c].pc = "run")
             => calls'[c].i = calls[c].i + 1]_vars
    /\ \A c \in DOMAIN IdleCalls :
          (calls[c].pc = "run") ~> (calls[c].pc = "done")

\* A run that failed at its third symbol after two steps.
C32_Witness ==
    \E c \in DOMAIN calls :
        /\ Done(c, "Run") /\ Len(calls[c].input) = 3
        /\ calls[c].err # NoError
        /\ calls[c].steps = 2 /\ calls[c].lookups = 3

\* C33: after any sequence of Run, IsAccepting and ValidateInput calls,
\* failed ones included, the automaton still has the states, alphabet,
\* initial state and accepting states the constructor was given and the
\* table it was given.
C33_MethodsReadOnly ==
    /\ [](/\ fa = MakeFA(cfg.states, cfg.alphabet, cfg.initialState,
                         cfg.acceptingStates)
          /\ NewFiniteAutomaton(cfg.states, cfg.alphabet, cfg.initialState,
                                cfg.acceptingStates, transitions).err = NoError
          /\ fa.Transitions = CallerMap
          /\ mutations = 0)
    /\ [][/\ transitions' = transitions
          /\ fa' = fa
          /\ cfg' = cfg]_vars

\* A Run that moved away from the initial state and then failed.
C33_Witness ==
    \E c \in DOMAIN calls :
        /\ Done(c, "Run") /\ calls[c].err.kind = "InvalidInputSymbol"
        /\ calls[c].steps = 2
        /\ calls[c].err.state # fa.InitialState

\* C34: on the calculator built from GetModThreeConfig, for every non-empty
\* string w of '0' and '1', Calculate("0" + w) returns the same remainder
\* as Calculate(w), both without an error.
C34_LeadingZero ==
    \A j, k \in DOMAIN calls :
        (/\ OnModThreeConfig
         /\ Done(j, "Calculate") /\ Done(k, "Calculate")
         /\ calls[k].input # EmptyString /\ IsBinary(calls[k].input)
         /\ calls[j].input = <<"0">> \o calls[k].input)
        => /\ calls[j].err = NoError /\ calls[k].err = NoError
           /\ calls[j].remainder = calls[k].remainder

\* Calculate("1") and then Calculate("01") on the same calculator.
C34_Witness ==
    /\ OnModThreeConfig
    /\ Done(1, "Calculate") /\ Done(2, "Calculate")
    /\ calls[1].input = <<"1">> /\ calls[2].input = <<"0", "1">>
    /\ calls[1].remainder = 1 /\ calls[2].remainder = 1

\* C35: ModThree(input), which runs the hand-assembled automaton, returns
\* the remainder Calculate(input) returns on the calculator built from
\* GetModThreeConfig: N mod 3 for a non-empty string of '0' and '1', 0 for
\* blank input, -1 for every other input.
C35_ModThreeAgreesWithCalculate ==
    (OnModThreeConfig /\ Done(1, "Calculate") /\ Done(2, "ModThree"))
    => LET input == calls[2].input IN
       /\ input = calls[1].input
       /\ calls[2].result = calls[1].remainder
       /\ calls[2].result =
             IF Blank(input) THEN 0
             ELSE IF IsBinary(input) THEN BinaryValue(input) % 3
             ELSE -1

\* Both entry points returned 1 on "100".
C35_Witness ==
    /\ OnModThreeConfig /\ Done(1, "Calculate") /\ Done(2, "ModThree")
    /\ calls[2].input = <<"1", "0", "0">>
    /\ calls[2].result = 1 /\ calls[1].remainder = 1

\* C36: on an automaton returned by NewFiniteAutomaton and not modified
\* since, for an input ValidateInput accepts, the current state of Run is a
\* declared state after every consumed prefix, and Run returns no error and
\* a declared state.
C36_ValidatedInputRuns ==
    \A c \in DOMAIN calls :
        (/\ origin = "new" /\ mutations = 0
         /\ calls[c].pc \in {"run", "done"} /\ calls[c].op = "Run"
         /\ ValidateInput(fa, calls[c].input))
        => /\ calls[c].pc = "run" => calls[c].currentState \in fa.States
           /\ calls[c].pc = "done" =>
                 /\ calls[c].err = NoError
                 /\ calls[c].finalState \in fa.States
                 /\ calls[c].steps = Len(calls[c].input)

\* A validated input of three symbols took the run away from the initial
\* state and back into the declared states.
C36_Witness ==
    \E c \in DOMAIN calls :
        /\ origin = "new" /\ Done(c, "Run")
        /\ Len(calls[c].input) = 3 /\ ValidateInput(fa, calls[c].input)
        /\ calls[c].finalState # fa.InitialState
        /\ Cardinality(fa.States) = 2

\* What a Calculate with the pre-validation step returns for w: the blank
\* shortcut, then ValidateInput, then the run.
CalculateValidated(w) ==
    IF Blank(w) THEN [remainder |-> 0, failed |-> FALSE]
    ELSE IF ~ValidateInput(fa, w) THEN [remainder |-> -1, failed |-> TRUE]
    ELSE LET r == CalculateAlone(w) IN
         [remainder |-> r.remainder, failed |-> r.err # NoError]

\* C37: on the calculator built from GetModThreeConfig, Calculate of a
\* non-blank input returns an error exactly when ValidateInput of the same
\* automaton rejects the input, and on every input its remainder and its
\* error/no-error outcome are those of a Calculate that validates first.
C37_RunRejectsWhatValidationRejects ==
    \A c \in DOMAIN calls :
        (OnModThreeConfig /\ Done(c, "Calculate"))
        => LET input == calls[c].input
               v == CalculateValidated(input)
           IN  /\ ~Blank(input) =>
                     ((calls[c].err # NoError) <=> ~ValidateInput(fa, input))
               /\ calls[c].remainder = v.remainder
               /\ (calls[c].err # NoError) = v.failed

\* An input whose last character is outside the alphabet: the run consumed
\* two symbols and then failed, and ValidateInput rejects the input.
C37_Witness ==
    \E c \in DOMAIN calls :
        /\ OnModThreeConfig /\ Done(c, "Calculate")
        /\ calls[c].input = <<"1", "0", "A">>
        /\ ~ValidateInput(fa, calls[c].input)
        /\ calls[c].err.kind = "InvalidInputSymbol"
        /\ calls[c].remainder = -1

\* C38: NewFiniteAutomaton called with an empty state list fails with the
\* initial-state error, whatever the initial state and the rest of the
\* configuration, so an automaton it returned has at least one state.
C38_NonEmptyStateSet ==
    /\ (JustConstructed /\ cfg.states = <<>>)
       => /\ fa = NilFA
          /\ err = [kind |-> "InitialStateNotInQ", state |-> cfg.initialState]
    /\ (cfg # NoCfg /\ fa # NilFA)
       => /\ fa.States # {}
          /\ fa.InitialState \in fa.States

\* An empty state list with an otherwise unobjectionable configuration:
\* no accepting states, and a table that has rows.
C38_Witness ==
    /\ JustConstructed /\ cfg.states = <<>> /\ cfg.acceptingStates = <<>>
    /\ cfg.alphabet # <<>>
    /\ DOMAIN transitions # {}
    /\ err.kind = "InitialStateNotInQ" /\ fa = NilFA

\* The part of a table the constructor looks at: the rows of the declared
\* states, and in them the entries of the declared symbols.
Rectangle(trans, args) ==
    [s \in DOMAIN trans \cap Range(args.states) |->
        [a \in DOMAIN trans[s] \cap Range(args.alphabet) |-> trans[s][a]]]

\* C39: the constructor returns what it would return for the table cut down
\* to declared states and declared symbols, so rows of undeclared states and
\* entries of undeclared symbols never make it fail; the automaton returned
\* refers to the whole table, and Run follows every entry of it.
C39_OnlyRectangleValidated ==
    /\ cfg # NoCfg
       => /\ err = NewFiniteAutomaton(cfg.states, cfg.alphabet, cfg.initialState,
                                      cfg.acceptingStates,
                                      Rectangle(transitions, cfg)).err
          /\ fa # NilFA => fa.Transitions = CallerMap
    /\ \A c \in DOMAIN calls :
          /\ calls[c].pc = "run"
             => calls[c].currentState =
                   DeltaHat(transitions, fa.InitialState,
                            SubSeq(calls[c].input, 1, calls[c].i - 1))
          /\ Done(c, "Run")
             => LET r == RunAlone(calls[c].input) IN
                calls[c].finalState = r.state /\ calls[c].err = r.err

\* A one-state, one-symbol configuration whose table also has an entry for
\* the undeclared symbol '1' and a row for the undeclared state S1: the
\* constructor returned an automaton, and Run on "10" went through S1.
C39_Witness ==
    \E c \in DOMAIN calls :
        /\ cfg # NoCfg /\ err = NoError /\ fa # NilFA
        /\ fa.States = {"S0"} /\ fa.Alphabet = {"0"}
        /\ DOMAIN transitions = {"S0", "S1"}
        /\ "1" \in DOMAIN transitions["S0"] /\ transitions["S0"]["1"] = "S1"
        /\ Done(c, "Run") /\ calls[c].input = <<"1", "0">>
        /\ calls[c].err = NoError
        /\ calls[c].finalState = transitions["S1"]["0"]

====
